---------------------------- MODULE Spec2Model ----------------------------
(***************************************************************************)
(* Model of the AutoQuiz orchestrator server (server_ge.js, kept in        *)
(* src/public/dashboard.js from line 1595 on, with utils.js and            *)
(* answerShape.js): the rate governor (token window, global cooldown,      *)
(* degrade mode, AsyncMutex), the batch pipeline getAnswersFromAPI /       *)
(* processBatch, and the in-memory SessionManager.                         *)
(*                                                                         *)
(* Times are integers in milliseconds, as Date.now() gives them.  The      *)
(* clock never runs backwards.  Code between two awaits runs as one        *)
(* step (single-threaded event loop).                                      *)
(***************************************************************************)
EXTENDS Integers, Sequences, FiniteSets, TLC

VARIABLES
    now,                      \* Date.now()
    \* ---- rate governor (module-level lets, dashboard.js 1646-1664)
    nextAllowedRequestTime,
    consecutive429,
    degradeActive,
    degradeUntil,
    successesSinceDegrade,
    tokenWindow,              \* sequence of [ts, tokens]
    \* ---- AsyncMutex rateLimitMutex
    mutexLocked,              \* _locked
    mutexQueue,               \* _queue, as the ids of the waiting dispatches
    \* ---- one getAnswersFromAPI call per pipeline p
    questions,                \* the input question list (question numbers)
    isGemini,                 \* model name contains 'gemini'
    promptTokens,             \* tokens of system prompt + image of the request
    queue,                    \* pending batches
    batch,                    \* the batch handed to processBatch
    batchResults,
    attempt,                  \* loop variable of processBatch
    pc,                       \* position of the pipeline
    wake,                     \* due time of the setTimeout being awaited
    postDelay,
    resp,                     \* provider response being handled
    answers,                  \* value returned by getAnswersFromAPI
    lastReturn,               \* kind of the last value returned by processBatch
    faults,                   \* provider responses other than a plain success so far
    \* ---- SessionManager
    sessions,                 \* the Map sessionId -> session
    timers,                   \* pending auto-expiry setTimeouts
    nextSessionId,            \* stands for crypto.randomBytes: always fresh
    userMetrics,
    lastReply,                \* reply of the request handled by the last step
    \* ---- observations
    lastUsed,                 \* tokens.used_last_minute of the last GET /metrics
    registered,               \* every entry pushed since the last sanity reset
    everRegistered,           \* every entry ever pushed
    issued,                   \* provider calls issued by the running processBatch
    unavailableSeen,          \* the running processBatch has caught a 503 failure
    dispatched,               \* processBatch calls made by the dispatch loop
    \* ---- configuration and pure functions
    ADMIN_KEY,                \* process.env.ADMIN_KEY ("" when unset)
    call,                     \* the function call under examination
    result                    \* the value it returned

govVars   == <<nextAllowedRequestTime, consecutive429, degradeActive,
               degradeUntil, successesSinceDegrade>>
winVars   == <<tokenWindow, lastUsed, registered, everRegistered>>
mutexVars == <<mutexLocked, mutexQueue>>
pipeVars  == <<questions, isGemini, promptTokens, queue, batch, batchResults,
               attempt, pc, wake, postDelay, resp, answers,
               lastReturn, faults, issued, unavailableSeen,
               dispatched>>
sessVars  == <<sessions, timers, nextSessionId, userMetrics, lastReply>>
fnVars    == <<ADMIN_KEY, call, result>>
vars      == <<now, govVars, winVars, mutexVars, pipeVars, sessVars, fnVars>>

-----------------------------------------------------------------------------
(* Program constants *)

degradeWindowMs      == 60000
degradedBatchSize    == 1
minCooldownMs        == 1500
maxCooldownMs        == 15000
SUCCESS_TO_RECOVER   == 5
limitPerMinute       == 30000
nearThreshold        == 2000
preWaitMs            == 2200
postWaitMs           == 2000
WINDOW_MS            == 60000
maxRetries           == 3
maxBatchSize         == 3
overheadTokens       == 50
PAUSE_503_MS         == 30000
DEFAULT_RETRY_MS     == 3000
ESTIMATE_FALLBACK    == 1000
maxTokens            == 3500
MAX_CONCURRENT_USERS == 1        \* process.env.MAX_CONCURRENT_USERS (15 when unset)
SESSION_TIMEOUT      == 3600000

(* Bounds of the model *)

MaxWinTime == 122000     \* the clock of SpecWin stops here
MaxRegs    == 3          \* registrations observed in SpecWin
MaxSessions == 2         \* sessions created in SpecSess
MaxPolls    == 4         \* getNextCommand calls in SpecSess
MaxSessTime == 7200000   \* the clock of SpecSess stops here
MaxTime     == 100000    \* the clock of Spec stops here
MaxFaults   == 3         \* provider responses other than a plain success
MaxFaultsConc == 2       \* the same, with two requests in flight
TokensPerQuestion == 100 \* tokens of one question in JSON
MaxItems == 2            \* entries of a raw provider response
MaxElems == 3            \* elements of an answer array
MaxQuestions == 7        \* questions of one planned list
MaxConsecutive == 4      \* consecutive 429s before a scheduleCooldown call
MaxClients == 3          \* dispatches contending for the mutex in SpecMutex

-----------------------------------------------------------------------------
(* Helpers *)

Min(a, b) == IF a < b THEN a ELSE b
Max(a, b) == IF a > b THEN a ELSE b

RECURSIVE SumTokens(_)
SumTokens(w) == IF w = <<>> THEN 0 ELSE Head(w).tokens + SumTokens(Tail(w))

SelectTs(w, cutoff) == SelectSeq(w, LAMBDA e : e.ts >= cutoff)

-----------------------------------------------------------------------------
(* Token window *)

\* a pruning that also drops the entry that is exactly 60 s old
RECURSIVE pruneTokenWindowInclusive(_, _)
pruneTokenWindowInclusive(w, t) ==
    IF w # <<>> /\ Head(w).ts <= t - WINDOW_MS
    THEN pruneTokenWindowInclusive(Tail(w), t)
    ELSE w

RECURSIVE pruneTokenWindow(_, _)
pruneTokenWindow(w, t) ==
    IF w # <<>> /\ Head(w).ts < t - WINDOW_MS
    THEN pruneTokenWindow(Tail(w), t)
    ELSE w

\* tokensUsedLastMinute: the value returned and the window it leaves
tokensTotal(w, t) == SumTokens(pruneTokenWindow(w, t))
\* a sanity test that only fires above ten times the limit
tokensSanityResetLate(w, t) == tokensTotal(w, t) > limitPerMinute * 10

\* total > TOKEN_BUDGET_CONFIG.limitPerMinute * 3
tokensSanityReset(w, t) == tokensTotal(w, t) > limitPerMinute * 3
tokensUsedLastMinute(w, t) ==
    IF tokensSanityReset(w, t) THEN 0 ELSE tokensTotal(w, t)
windowAfterRead(w, t) ==
    IF tokensSanityReset(w, t) THEN <<>> ELSE pruneTokenWindow(w, t)

msUntilWindowReset(w, t) ==
    LET p == pruneTokenWindow(w, t)
    IN  IF p = <<>> THEN 0 ELSE Max(0, Head(p).ts + WINDOW_MS - t)

registerTokens(w, t, count) ==
    pruneTokenWindow(Append(w, [ts |-> t, tokens |-> count]), t)


-----------------------------------------------------------------------------
(* SessionManager *)

NoReply   == [op |-> "none"]
NoUser    == 0            \* userId = null: the session id prefix is used

ZeroMetrics == [sessionsCreated |-> 0, sessionsExpired |-> 0,
                sessionsDeleted |-> 0, questionsProcessed |-> 0]

\* updateUserMetrics(userId, event)
updateUserMetrics(m, uid, event) ==
    LET cur == IF uid \in DOMAIN m THEN m[uid] ELSE ZeroMetrics
        upd == CASE event = "session_created" ->
                      [cur EXCEPT !.sessionsCreated = @ + 1]
                 [] event = "session_expired" ->
                      [cur EXCEPT !.sessionsExpired = @ + 1]
                 [] event = "session_deleted" ->
                      [cur EXCEPT !.sessionsDeleted = @ + 1]
                 [] event = "question_processed" ->
                      [cur EXCEPT !.questionsProcessed = @ + 1]
                 [] OTHER -> cur
    IN  [u \in DOMAIN m \cup {uid} |-> IF u = uid THEN upd ELSE m[u]]

\* a count that also leaves out the sessions past their expiresAt
activeSessionsLive(ss) == {id \in DOMAIN ss : ~ss[id].expired /\ now <= ss[id].expiresAt}

\* Array.from(sessions.values()).filter(s => !s.expired)
activeSessions(ss) == {id \in DOMAIN ss : ~ss[id].expired}
getActiveUsers(ss) == Cardinality(activeSessions(ss))

\* a capacity test that leaves out the sessions whose answers are all consumed
capacityReachedUnfinished(ss) ==
    Cardinality({id \in activeSessions(ss) :
                    ss[id].currentIndex < Len(ss[id].answers)})
        >= MAX_CONCURRENT_USERS

\* a capacity test with > for >=
capacityReachedOver(ss) == getActiveUsers(ss) > MAX_CONCURRENT_USERS

capacityReached(ss) == getActiveUsers(ss) >= MAX_CONCURRENT_USERS

newSession(id, qs, ans, userId, t) ==
    [id |-> id,
     userId |-> IF userId = NoUser THEN id ELSE userId,
     questions |-> qs,
     answers |-> ans,
     currentIndex |-> 0,
     createdAt |-> t,
     lastAccessAt |-> t,
     expiresAt |-> t + SESSION_TIMEOUT,
     expired |-> FALSE,
     questionsTotal |-> Len(qs),
     questionsProcessed |-> 0,
     polls |-> 0]

\* expireSession(sessionId): the store and the metrics it leaves
expireSessionStore(ss, id) ==
    IF id \in DOMAIN ss /\ ~ss[id].expired
    THEN [ss EXCEPT ![id].expired = TRUE]
    ELSE ss
expireSessionMetrics(ss, m, id) ==
    IF id \in DOMAIN ss /\ ~ss[id].expired
    THEN updateUserMetrics(m, ss[id].userId, "session_expired")
    ELSE m

\* getSession(sessionId) returns a session (TRUE) or null (FALSE)
sessionIsLive(ss, id, t) ==
    /\ id \in DOMAIN ss
    /\ ~(ss[id].expired \/ t > ss[id].expiresAt)
\* a getSession whose read of an active session also slides its expiresAt
getSessionStoreSliding(ss, id, t) ==
    IF id \notin DOMAIN ss THEN ss
    ELSE IF ss[id].expired \/ t > ss[id].expiresAt
         THEN expireSessionStore(ss, id)
         ELSE [ss EXCEPT ![id].lastAccessAt = t,
                         ![id].expiresAt = t + SESSION_TIMEOUT]

getSessionStore(ss, id, t) ==
    IF id \notin DOMAIN ss THEN ss
    ELSE IF ss[id].expired \/ t > ss[id].expiresAt
         THEN expireSessionStore(ss, id)
         ELSE [ss EXCEPT ![id].lastAccessAt = t]
getSessionMetrics(ss, m, id, t) ==
    IF id \in DOMAIN ss /\ (ss[id].expired \/ t > ss[id].expiresAt)
    THEN expireSessionMetrics(ss, m, id)
    ELSE m

\* session.questions.find(q => q.number === n): index of the first match, 0 if none
RECURSIVE findQuestion(_, _, _)
findQuestion(qs, n, i) ==
    IF i > Len(qs) THEN 0
    ELSE IF qs[i] = n THEN i ELSE findQuestion(qs, n, i + 1)

-----------------------------------------------------------------------------
(* Pipelines *)

Procs == {1, 2}

NoResp == [kind |-> "none", hint |-> 0, requested |-> 0]

InitPipesIdle ==
    /\ questions = [p \in Procs |-> <<>>]
    /\ isGemini = [p \in Procs |-> FALSE]
    /\ promptTokens = [p \in Procs |-> 0]
    /\ queue = [p \in Procs |-> <<>>]
    /\ batch = [p \in Procs |-> <<>>]
    /\ batchResults = [p \in Procs |-> <<>>]
    /\ attempt = [p \in Procs |-> 0]
    /\ pc = [p \in Procs |-> "done"]
    /\ wake = [p \in Procs |-> 0]
    /\ postDelay = [p \in Procs |-> FALSE]
    /\ resp = [p \in Procs |-> NoResp]
    /\ answers = [p \in Procs |-> <<>>]
    /\ lastReturn = [p \in Procs |-> "none"]
    /\ faults = 0
    /\ issued = [p \in Procs |-> 0]
    /\ unavailableSeen = [p \in Procs |-> FALSE]
    /\ dispatched = [p \in Procs |-> 0]

NoCall == [fn |-> "none"]

\* no function call is examined; the admin secret is one of keys
InitCalls(keys) ==
    /\ ADMIN_KEY \in keys
    /\ call = NoCall
    /\ result = NoCall

InitSessions ==
    /\ sessions = << >>
    /\ timers = {}
    /\ nextSessionId = 1
    /\ userMetrics = << >>
    /\ lastReply = NoReply

-----------------------------------------------------------------------------
(* Initial values of the three parts of the state *)

NoRead == [t |-> -1, used |-> 0]

InitGovernor(win) ==
    /\ nextAllowedRequestTime = 0
    /\ consecutive429 = 0
    /\ degradeActive = FALSE
    /\ degradeUntil = 0
    /\ successesSinceDegrade = 0
    /\ tokenWindow = win
    /\ mutexLocked = FALSE
    /\ mutexQueue = <<>>
    /\ lastUsed = NoRead
    /\ registered = <<>>
    /\ everRegistered = <<>>

-----------------------------------------------------------------------------
(* SpecWin: the token window under registrations and reads at any time.   *)
(* GET /metrics reads the window at any moment; every successful dispatch  *)
(* registers its estimate.                                                 *)

WinTicks  == {30000, 31000}
RegTokens == {1000, 50000}

WinTick ==
    \E d \in WinTicks :
        /\ now + d <= MaxWinTime
        /\ now' = now + d
        /\ lastUsed' = NoRead
        /\ UNCHANGED <<govVars, tokenWindow, registered, everRegistered,
                       mutexVars, pipeVars, sessVars, fnVars>>

WinRegister ==
    \E c \in RegTokens :
        /\ Len(everRegistered) < MaxRegs
        /\ tokenWindow' = registerTokens(tokenWindow, now, c)
        /\ registered' = Append(registered, [ts |-> now, tokens |-> c])
        /\ everRegistered' = Append(everRegistered, [ts |-> now, tokens |-> c])
        /\ lastUsed' = NoRead
        /\ UNCHANGED <<now, govVars, mutexVars, pipeVars, sessVars, fnVars>>

\* GET /metrics: tokensUsedLastMinute()
WinRead ==
    /\ lastUsed' = [t |-> now, used |-> tokensUsedLastMinute(tokenWindow, now)]
    /\ tokenWindow' = windowAfterRead(tokenWindow, now)
    /\ registered' = IF tokensSanityReset(tokenWindow, now) THEN <<>> ELSE registered
    /\ UNCHANGED <<now, everRegistered, govVars, mutexVars, pipeVars, sessVars,
                   fnVars>>

NextWin == WinTick \/ WinRegister \/ WinRead

InitWin == /\ now = 0 /\ InitGovernor(<<>>) /\ InitPipesIdle /\ InitSessions
           /\ InitCalls({""})

SpecWin == InitWin /\ [][NextWin]_vars

-----------------------------------------------------------------------------
(* SpecSess: the session store under /start-quiz, /get-command, the expiry *)
(* timers, admin deletion and the background sweep.                        *)

SessTicks == {SESSION_TIMEOUT}
SessionIds == 1..MaxSessions

AnswerEntry(n, a, e) == [question_number |-> n, answer |-> a, error |-> e]

\* what /start-quiz hands to createSession: the question list and the answers
\* getAnswersFromAPI returned for it (one entry per question, in order)
QuizInputs ==
    { [userId |-> NoUser, questions |-> <<1>>,
       answers |-> <<AnswerEntry(1, "val", "none")>>],
      [userId |-> 101, questions |-> <<2, 1>>,
       answers |-> <<AnswerEntry(2, "val", "none"),
                     AnswerEntry(1, "null", "batch_error")>>] }

withSession(ss, id, s) ==
    [i \in DOMAIN ss \cup {id} |-> IF i = id THEN s ELSE ss[i]]
withoutSessions(ss, ids) ==
    [i \in DOMAIN ss \ ids |-> ss[i]]

\* sum of questionsProcessed over all users
RECURSIVE polledOver(_, _)
polledOver(m, us) ==
    IF us = {} THEN 0
    ELSE LET u == CHOOSE x \in us : TRUE
         IN  m[u].questionsProcessed + polledOver(m, us \ {u})
polledTotal(m) == polledOver(m, DOMAIN m)

otherVars == <<govVars, winVars, mutexVars, pipeVars, fnVars>>

\* POST /start-quiz from sessionManager.createSession on (3099-3122)
CreateSession ==
    \E inp \in QuizInputs :
        IF capacityReached(sessions)
        THEN /\ lastReply' = [op |-> "start", http |-> 429, sessionId |-> 0]
             /\ UNCHANGED <<now, sessions, timers, nextSessionId, userMetrics,
                            otherVars>>
        ELSE /\ nextSessionId <= MaxSessions
             /\ LET id == nextSessionId
                    s  == newSession(id, inp.questions, inp.answers, inp.userId, now)
                IN  /\ sessions' = withSession(sessions, id, s)
                    /\ userMetrics' = updateUserMetrics(userMetrics, s.userId,
                                                        "session_created")
                    /\ timers' = timers \cup {[id |-> id, at |-> now + SESSION_TIMEOUT]}
                    /\ lastReply' = [op |-> "start", http |-> 200, sessionId |-> id]
             /\ nextSessionId' = nextSessionId + 1
             /\ UNCHANGED <<now, otherVars>>

GetSession ==
    \E id \in SessionIds :
        /\ sessions' = getSessionStore(sessions, id, now)
        /\ userMetrics' = getSessionMetrics(sessions, userMetrics, id, now)
        /\ lastReply' = [op |-> "getSession", id |-> id,
                         found |-> sessionIsLive(sessions, id, now)]
        /\ UNCHANGED <<now, timers, nextSessionId, otherVars>>

\* getNextCommand(sessionId): the value returned, the store and the metrics
nextCommandResult(ss, id, t) ==
    IF ~sessionIsLive(ss, id, t) THEN [op |-> "poll", id |-> id, status |-> "error"]
    ELSE LET s == ss[id] IN
         IF s.currentIndex >= Len(s.answers)
         THEN [op |-> "poll", id |-> id, status |-> "completed"]
         ELSE LET a  == s.answers[s.currentIndex + 1]
                  qi == findQuestion(s.questions, a.question_number, 1)
              IN  IF qi = 0 THEN [op |-> "poll", id |-> id, status |-> "error"]
                  ELSE [op |-> "poll", id |-> id, status |-> "command",
                        command |-> [number |-> s.questions[qi],
                                     selectedAnswer |-> a.answer,
                                     error |-> a.error]]

\* a getNextCommand that forgets session.currentIndex++
nextCommandStoreNoAdvance(ss, id, t) ==
    LET ss1 == getSessionStore(ss, id, t)
        r   == nextCommandResult(ss, id, t)
    IN  IF ~sessionIsLive(ss, id, t) THEN ss1
        ELSE IF r.status = "command"
             THEN [ss1 EXCEPT ![id].questionsProcessed = @ + 1,
                              ![id].polls = @ + 1]
             ELSE [ss1 EXCEPT ![id].polls = @ + 1]

nextCommandStore(ss, id, t) ==
    LET ss1 == getSessionStore(ss, id, t)
        r   == nextCommandResult(ss, id, t)
    IN  IF ~sessionIsLive(ss, id, t) THEN ss1
        ELSE IF r.status = "command"
             THEN [ss1 EXCEPT ![id].currentIndex = @ + 1,
                              ![id].questionsProcessed = @ + 1,
                              ![id].polls = @ + 1]
             ELSE [ss1 EXCEPT ![id].polls = @ + 1]

nextCommandMetrics(ss, m, id, t) ==
    LET m1 == getSessionMetrics(ss, m, id, t)
        r  == nextCommandResult(ss, id, t)
    IN  IF ~sessionIsLive(ss, id, t) THEN m1
        ELSE IF r.status \in {"command", "completed"}
             THEN updateUserMetrics(m1, ss[id].userId, "question_processed")
             ELSE m1

GetNextCommand ==
    \E id \in SessionIds :
        /\ polledTotal(userMetrics) < MaxPolls
        /\ lastReply' = nextCommandResult(sessions, id, now)
        /\ sessions' = nextCommandStore(sessions, id, now)
        /\ userMetrics' = nextCommandMetrics(sessions, userMetrics, id, now)
        /\ UNCHANGED <<now, timers, nextSessionId, otherVars>>

\* setTimeout(() => this.expireSession(sessionId), SESSION_TIMEOUT)
ExpireTimer ==
    \E tm \in timers :
        /\ now >= tm.at
        /\ sessions' = expireSessionStore(sessions, tm.id)
        /\ userMetrics' = expireSessionMetrics(sessions, userMetrics, tm.id)
        /\ timers' = timers \ {tm}
        /\ lastReply' = NoReply
        /\ UNCHANGED <<now, nextSessionId, otherVars>>

\* DELETE /admin/sessions/:sessionId -> deleteSession
DeleteSession ==
    \E id \in SessionIds :
        /\ sessions' = withoutSessions(sessions, {id})
        /\ userMetrics' = IF id \in DOMAIN sessions
                          THEN updateUserMetrics(userMetrics, sessions[id].userId,
                                                 "session_deleted")
                          ELSE userMetrics
        /\ lastReply' = [op |-> "delete", id |-> id]
        /\ UNCHANGED <<now, timers, nextSessionId, otherVars>>

\* a sweep that looks at the expired flag only
sweepVictimsFlagged(ss, t) == {id \in DOMAIN ss : ss[id].expired}

\* cleanExpiredSessions, run by both setInterval jobs
sweepVictims(ss, t) == {id \in DOMAIN ss : ss[id].expired \/ t > ss[id].expiresAt}

CleanExpiredSessions ==
    /\ sessions' = withoutSessions(sessions, sweepVictims(sessions, now))
    /\ lastReply' = NoReply
    /\ UNCHANGED <<now, timers, nextSessionId, userMetrics, otherVars>>

SessTick ==
    \E d \in SessTicks :
        /\ now + d <= MaxSessTime
        /\ now' = now + d
        /\ lastReply' = NoReply
        /\ UNCHANGED <<sessions, timers, nextSessionId, userMetrics, otherVars>>

NextSess ==
    \/ CreateSession \/ GetSession \/ GetNextCommand \/ ExpireTimer
    \/ DeleteSession \/ CleanExpiredSessions \/ SessTick

InitSess == /\ now = 0 /\ InitGovernor(<<>>) /\ InitPipesIdle /\ InitSessions
            /\ InitCalls({"secret"})

SpecSess == InitSess /\ [][NextSess]_vars

\* an expiry timer due after the end of the modelled clock fires all the same
SessTickLate ==
    /\ timers # {}
    /\ \A tm \in timers : tm.at > now /\ tm.at > MaxSessTime
    /\ \E tm \in timers :
           /\ \A other \in timers : tm.at <= other.at
           /\ now' = tm.at
    /\ lastReply' = NoReply
    /\ UNCHANGED <<sessions, timers, nextSessionId, userMetrics, otherVars>>

\* creations, reads, expiry timers, deletions, sweeps and the clock
NextSessLive ==
    \/ CreateSession \/ GetSession \/ ExpireTimer \/ DeleteSession
    \/ CleanExpiredSessions \/ SessTick \/ SessTickLate

\* the session store where time passes, every expiry setTimeout fires and
\* the setInterval sweeps keep running (1827, 4086)
SpecSessLive ==
    /\ InitSess /\ [][NextSessLive]_vars
    /\ WF_vars(SessTick \/ SessTickLate)
    /\ WF_vars(ExpireTimer)
    /\ WF_vars(CleanExpiredSessions)

-----------------------------------------------------------------------------
(* SpecAdmin: the admin endpoints over the session store, with and without *)
(* a configured ADMIN_KEY.                                                 *)

\* process.env.ADMIN_KEY: "" stands for a variable that is unset or empty
AdminConfigs == {"", "secret"}

\* req.headers['x-admin-key']: "" stands for a request without the header
AdminHeaders == {"", "secret", "wrong"}

\* adminKey !== process.env.ADMIN_KEY && process.env.ADMIN_KEY
adminDenied(adminKey, cfg) == adminKey # cfg /\ cfg # ""

\* the session records GET /admin/sessions puts in its reply
allSessions(ss) == {ss[id] : id \in DOMAIN ss}

\* GET /admin/sessions
AdminList ==
    \E k \in AdminHeaders :
        /\ lastReply' = IF adminDenied(k, ADMIN_KEY)
                        THEN [op |-> "adminList", key |-> k, http |-> 403,
                              data |-> {}]
                        ELSE [op |-> "adminList", key |-> k, http |-> 200,
                              data |-> allSessions(sessions)]
        /\ UNCHANGED <<now, sessions, timers, nextSessionId, userMetrics,
                       otherVars>>

\* DELETE /admin/sessions/:sessionId
AdminDelete ==
    \E k \in AdminHeaders, id \in SessionIds :
        IF adminDenied(k, ADMIN_KEY)
        THEN /\ lastReply' = [op |-> "adminDelete", key |-> k, http |-> 403,
                              data |-> {}]
             /\ UNCHANGED <<now, sessions, timers, nextSessionId, userMetrics,
                            otherVars>>
        ELSE /\ sessions' = withoutSessions(sessions, {id})
             /\ userMetrics' = IF id \in DOMAIN sessions
                               THEN updateUserMetrics(userMetrics,
                                        sessions[id].userId, "session_deleted")
                               ELSE userMetrics
             /\ lastReply' = [op |-> "adminDelete", key |-> k, http |-> 200,
                              data |-> {}]
             /\ UNCHANGED <<now, timers, nextSessionId, otherVars>>

NextAdmin == CreateSession \/ GetNextCommand \/ AdminList \/ AdminDelete

InitAdmin == /\ now = 0 /\ InitGovernor(<<>>) /\ InitPipesIdle /\ InitSessions
             /\ InitCalls(AdminConfigs)

SpecAdmin == InitAdmin /\ [][NextAdmin]_vars


-----------------------------------------------------------------------------
(* Rate governor *)

\* a scheduleCooldown that ignores the aggressive flag
cooldownDelayFlat(hint, c, aggressive) ==
    LET baseMs   == IF hint = 0 THEN DEFAULT_RETRY_MS ELSE hint
        rawDelay == baseMs * (c + 1)
    IN  Min(maxCooldownMs, Max(minCooldownMs, rawDelay))

\* scheduleCooldown(message, aggressive): the delay it schedules, where c is
\* consecutive429 after its increment and hint is parseRetrySeconds in ms
\* (0: the text has no hint, or the hint is 0)
cooldownDelay(hint, c, aggressive) ==
    LET baseMs   == IF hint = 0 THEN DEFAULT_RETRY_MS ELSE hint
        rawDelay == IF aggressive THEN (baseMs * (c + 1) * 3) \div 2
                                  ELSE baseMs * (c + 1)
    IN  Min(maxCooldownMs, Max(minCooldownMs, rawDelay))

\* a gate whose blocking wait is always the fixed pre-wait
gateWaitFixed(w, t, est) ==
    LET used == tokensUsedLastMinute(w, t)
    IN  IF used >= limitPerMinute - nearThreshold /\ used + est > limitPerMinute
        THEN preWaitMs
        ELSE 0

\* preflightTokenGate(estimatedTokens): how long it sleeps
gateWait(w, t, est) ==
    LET used == tokensUsedLastMinute(w, t)
        w1   == windowAfterRead(w, t)
        msRemain == msUntilWindowReset(w1, t)
    IN  IF used >= limitPerMinute - nearThreshold /\ used + est > limitPerMinute
        THEN IF used >= limitPerMinute /\ msRemain > preWaitMs
             THEN msRemain ELSE preWaitMs
        ELSE 0

\* a gate that asks for the post-call delay whenever usage is in the near band
gatePostDelayNear(w, t, est) ==
    tokensUsedLastMinute(w, t) >= limitPerMinute - nearThreshold

\* preflightTokenGate(estimatedTokens): the postDelay it returns
gatePostDelay(w, t, est) ==
    LET used == tokensUsedLastMinute(w, t)
    IN  /\ used >= limitPerMinute - nearThreshold
        /\ ~(used + est > limitPerMinute)

\* registerBatchSuccess with maybeRecoverFromDegrade
\* a recovery test made before successesSinceDegrade++
recoversBeforeIncrement(active, succ, until, t) ==
    active /\ (t >= until \/ succ >= SUCCESS_TO_RECOVER)

recovers(active, succ, until, t) ==
    active /\ (t >= until \/ succ + 1 >= SUCCESS_TO_RECOVER)

-----------------------------------------------------------------------------
(* Batch planning and answer assembly *)

\* estimatePayloadTokens(systemPrompt, questions, image) as processBatch calls
\* it (model defaults to gpt-4o)
estimatePayloadTokens(p, b) ==
    promptTokens[p] + TokensPerQuestion * Len(b) + overheadTokens

\* estimatePayloadTokens as createOptimizedBatches calls it for one question:
\* encoding_for_model throws for a Gemini model name and the estimate is 1000
planTokens(prompt, gem) ==
    IF gem THEN ESTIMATE_FALLBACK
    ELSE prompt + TokensPerQuestion + overheadTokens

\* createOptimizedBatches: the loop over the questions
RECURSIVE planLoop(_, _, _, _, _)
planLoop(qs, batches, cur, curTokens, qt) ==
    IF qs = <<>>
    THEN IF cur # <<>> THEN Append(batches, cur) ELSE batches
    ELSE IF Len(cur) >= maxBatchSize \/ curTokens + qt > maxTokens
         THEN planLoop(Tail(qs),
                       IF cur # <<>> THEN Append(batches, cur) ELSE batches,
                       <<Head(qs)>>, qt, qt)
         ELSE planLoop(Tail(qs), batches, Append(cur, Head(qs)),
                       curTokens + qt, qt)

createOptimizedBatches(qs, prompt, gem) ==
    planLoop(qs, <<>>, <<>>, 0, planTokens(prompt, gem))

\* the initial queue of getAnswersFromAPI (2877-2893)
initialQueue(qs, prompt, gem) ==
    IF Len(qs) <= maxBatchSize THEN <<qs>>
    ELSE createOptimizedBatches(qs, prompt, gem)

\* a split that puts the batch back as it is: queue.unshift(b)
fragmentWhole(b, q) ==
    <<b>> \o q

\* for (const q of b) queue.unshift([q])
fragmentFront(b, q) ==
    [i \in 1..Len(b) |-> <<b[Len(b) + 1 - i]>>] \o q

\* batchResults.find(a => a.question_number === n): first index, 0 if none
RECURSIVE findAnswer(_, _, _)
findAnswer(br, n, i) ==
    IF i > Len(br) THEN 0
    ELSE IF br[i].question_number = n THEN i ELSE findAnswer(br, n, i + 1)

\* an assembly that returns the batch results as they were collected
assembleAnswersAsCollected(qs, br) == br

\* the final loop of getAnswersFromAPI (2952-2977)
assembleAnswers(qs, br) ==
    [i \in 1..Len(qs) |->
        LET k == findAnswer(br, qs[i], 1)
        IN  IF k = 0 THEN AnswerEntry(qs[i], "null", "missing")
            ELSE br[k]]

\* answers a provider body yields for batch b of a request with questions qs
okAnswers(b)      == [i \in 1..Len(b) |-> AnswerEntry(b[i], "val", "none")]
\* a body with an entry for every question of the request: the entries for
\* questions outside batch b carry the value "stray"
extraAnswers(b, qs) ==
    [i \in 1..Len(qs) |->
        AnswerEntry(qs[i],
                    IF \E j \in 1..Len(b) : b[j] = qs[i] THEN "val" ELSE "stray",
                    "none")]
parseFailed(b)    == [i \in 1..Len(b) |-> AnswerEntry(b[i], "null", "parse_error")]
\* a fallback with a single entry for the whole batch
fallbackResponseFirstOnly(b) == <<AnswerEntry(b[1], "null", "batch_error")>>
fallbackResponse(b) == [i \in 1..Len(b) |-> AnswerEntry(b[i], "null", "batch_error")]

-----------------------------------------------------------------------------
(* Spec: pipelines running getAnswersFromAPI against the shared governor  *)

RetryHints      == {0, 1000}      \* "try again in Ns" of a 429 body, in ms
RequestedTokens == {0, 3000}      \* "Requested N" of a 429 body
FreeTicks       == {60000}

OkKinds   == {"ok", "extra", "unparseable"}
ErrKinds  == {"partial", "malformed", "http500", "neterr", "http503"}
Responses ==
    [kind : OkKinds \cup ErrKinds, hint : {0}, requested : {0}]
    \cup [kind : {"http429"}, hint : RetryHints, requested : RequestedTokens]

Sleeping == {"cooldown", "gatewait", "postdelay", "pause503", "winwait", "backoff"}
InCS     == {"cooldown", "gatewait", "fetch"}

\* the fault budget of the run: of SpecOne, or of Spec
faultLimit == IF \E p \in Procs : questions[p] = <<>> THEN MaxFaults ELSE MaxFaultsConc

sessUnch == UNCHANGED <<sessVars, lastUsed, registered, everRegistered, fnVars>>
inputUnch == UNCHANGED <<questions, isGemini, promptTokens>>
faultsUnch == UNCHANGED faults

\* the fetch() calls of lines 2412 and 2471 made so far by the processBatch
\* call of pipeline p: counted from 0 when the dispatch loop calls
\* processBatch, one more each time the pipeline issues a provider call
CountCalls(p) ==
    LET base == IF pc[p] = "pop" THEN 0 ELSE issued[p]
    IN  issued' = [issued EXCEPT ![p] =
                      IF pc[p] # "fetch" /\ pc'[p] = "fetch" THEN base + 1
                      ELSE base]

\* the processBatch calls of line 2938 made so far by the dispatch loop of
\* pipeline p
NoteDispatch(p) ==
    dispatched' = [dispatched EXCEPT ![p] =
        IF pc[p] = "pop" /\ pc'[p] \notin {"pop", "done"} THEN @ + 1 ELSE @]

\* whether the catch block of the processBatch call of pipeline p has
\* already handled an error with is503Error (line 2579)
Note503(p) ==
    unavailableSeen' = [unavailableSeen EXCEPT ![p] =
        IF pc'[p] \in {"pop", "done"} THEN FALSE
        ELSE IF pc[p] = "respond" /\ resp[p].kind = "http503" THEN TRUE
        ELSE @]

\* a release that clears _locked even when it hands the lock over
releaseLockedFree(mq) == FALSE
\* AsyncMutex.release(): _locked and _queue afterwards.  With a waiter the
\* lock stays held and passes to the head of the queue.
releaseLocked(mq) == mq # <<>>
releaseQueue(mq)  == IF mq # <<>> THEN Tail(mq) ELSE mq

\* preflightTokenGate inside the critical section, then fetch
GateStep(p, b) ==
    LET est == estimatePayloadTokens(p, b)
        w   == gateWait(tokenWindow, now, est)
    IN  /\ tokenWindow' = windowAfterRead(tokenWindow, now)
        /\ postDelay' = [postDelay EXCEPT ![p] = gatePostDelay(tokenWindow, now, est)]
        /\ IF w > 0
           THEN /\ pc' = [pc EXCEPT ![p] = "gatewait"]
                /\ wake' = [wake EXCEPT ![p] = now + w]
           ELSE /\ pc' = [pc EXCEPT ![p] = "fetch"]
                /\ UNCHANGED wake

\* respectGlobalCooldown, then the gate
EnterCS(p, b) ==
    IF nextAllowedRequestTime - now > 0
    THEN /\ pc' = [pc EXCEPT ![p] = "cooldown"]
         /\ wake' = [wake EXCEPT ![p] = nextAllowedRequestTime]
         /\ UNCHANGED <<tokenWindow, postDelay>>
    ELSE GateStep(p, b)

\* rateLimitMutex.acquire() at the start of an attempt
acquire(p, b) ==
    IF mutexLocked
    THEN /\ mutexQueue' = Append(mutexQueue, p)
         /\ pc' = [pc EXCEPT ![p] = "waitlock"]
         /\ UNCHANGED <<mutexLocked, wake, tokenWindow, postDelay>>
    ELSE /\ mutexLocked' = TRUE
         /\ UNCHANGED mutexQueue
         /\ EnterCS(p, b)

\* while (queue.length): shift a batch, split it when degraded, call processBatch
StartBatch(p) ==
    /\ pc[p] = "pop"
    /\ queue[p] # <<>>
    /\ LET q1 == IF degradeActive /\ Len(Head(queue[p])) > degradedBatchSize
                 THEN fragmentFront(Head(queue[p]), Tail(queue[p]))
                 ELSE queue[p]
       IN  /\ batch' = [batch EXCEPT ![p] = Head(q1)]
           /\ queue' = [queue EXCEPT ![p] = Tail(q1)]
    /\ attempt' = [attempt EXCEPT ![p] = 1]
    /\ acquire(p, batch'[p])
    /\ UNCHANGED <<now, govVars, batchResults, resp, answers, lastReturn>>
    /\ inputUnch /\ sessUnch /\ faultsUnch /\ CountCalls(p) /\ Note503(p)
    /\ NoteDispatch(p)

\* the queue is empty: build the answer list and return
Finish(p) ==
    /\ pc[p] = "pop"
    /\ queue[p] = <<>>
    /\ answers' = [answers EXCEPT ![p] = assembleAnswers(questions[p], batchResults[p])]
    /\ pc' = [pc EXCEPT ![p] = "done"]
    /\ UNCHANGED <<now, govVars, tokenWindow, mutexVars, queue, batch,
                   batchResults, attempt, wake, postDelay, resp, lastReturn>>
    /\ inputUnch /\ sessUnch /\ faultsUnch /\ CountCalls(p) /\ Note503(p)
    /\ NoteDispatch(p)

\* the mutex was handed over by release(): enter the critical section
Granted(p) ==
    /\ pc[p] = "granted"
    /\ EnterCS(p, batch[p])
    /\ UNCHANGED <<now, govVars, mutexVars, queue, batch, batchResults,
                   attempt, resp, answers, lastReturn>>
    /\ inputUnch /\ sessUnch /\ faultsUnch /\ CountCalls(p) /\ Note503(p)
    /\ NoteDispatch(p)

\* the cooldown sleep ended
WakeCooldown(p) ==
    /\ pc[p] = "cooldown"
    /\ now >= wake[p]
    /\ GateStep(p, batch[p])
    /\ UNCHANGED <<now, govVars, mutexVars, queue, batch, batchResults,
                   attempt, resp, answers, lastReturn>>
    /\ inputUnch /\ sessUnch /\ faultsUnch /\ CountCalls(p) /\ Note503(p)
    /\ NoteDispatch(p)

\* the gate sleep ended: issue the provider call
WakeGate(p) ==
    /\ pc[p] = "gatewait"
    /\ now >= wake[p]
    /\ pc' = [pc EXCEPT ![p] = "fetch"]
    /\ UNCHANGED <<now, govVars, tokenWindow, mutexVars, queue, batch,
                   batchResults, attempt, wake, postDelay, resp, answers,
                   lastReturn>>
    /\ inputUnch /\ sessUnch /\ faultsUnch /\ CountCalls(p) /\ Note503(p)
    /\ NoteDispatch(p)

\* fetch settles; runExclusive's finally releases the mutex
FetchReturn(p) ==
    /\ pc[p] = "fetch"
    /\ \E r \in Responses :
           /\ r.kind = "ok" \/ faults < faultLimit
           /\ resp' = [resp EXCEPT ![p] = r]
           /\ faults' = IF r.kind = "ok" THEN faults ELSE faults + 1
    /\ mutexLocked' = releaseLocked(mutexQueue)
    /\ mutexQueue' = releaseQueue(mutexQueue)
    /\ pc' = IF mutexQueue # <<>>
             THEN [pc EXCEPT ![p] = "respond", ![Head(mutexQueue)] = "granted"]
             ELSE [pc EXCEPT ![p] = "respond"]
    /\ UNCHANGED <<now, govVars, tokenWindow, queue, batch, batchResults,
                   attempt, wake, postDelay, answers, lastReturn, issued,
                   unavailableSeen, dispatched>>
    /\ inputUnch /\ sessUnch

\* classes of a provider response, as processBatch tells them apart
isSuccess(r, gem) ==
    r.kind \in {"ok", "extra"} \/ (r.kind = "unparseable" /\ ~gem)

\* an early-429 test that forgets `questionBatch.length > 1`
isEarly429AnySize(r, att, b, gem) ==
    r.kind = "http429" /\ att = 1 /\ ~gem

\* an early-429 test that forgets `attempt === 1`
isEarly429AnyAttempt(r, att, b, gem) ==
    r.kind = "http429" /\ Len(b) > 1 /\ ~gem

\* line 2507: 429 on attempt 1 of a multi-question batch.  For a Gemini model
\* the non-ok response has already been thrown at line 2426.
isEarly429(r, att, b, gem) ==
    r.kind = "http429" /\ att = 1 /\ Len(b) > 1 /\ ~gem

normalizedAnswers(r, b, qs) ==
    CASE r.kind = "ok" -> okAnswers(b)
      [] r.kind = "extra" -> extraAnswers(b, qs)
      [] OTHER -> parseFailed(b)

\* scheduleCooldown calls made for one 429 that is not an early one: line 2521
\* (not for Gemini) and line 2588
cooldownCalls(gem) == IF gem THEN 1 ELSE 2

\* delay before the next attempt (line 2600)
retryDelay(r, att) ==
    IF r.kind = "http503" THEN 5000 * att ELSE 2000 * (2 ^ (att - 1))

\* processBatch returns ans to the dispatch loop, which collects it
ReturnAnswers(p, ans, kind) ==
    /\ batchResults' = [batchResults EXCEPT ![p] = @ \o ans]
    /\ lastReturn' = [lastReturn EXCEPT ![p] = kind]
    /\ pc' = [pc EXCEPT ![p] = "pop"]
    /\ resp' = [resp EXCEPT ![p] = NoResp]

\* a retry test that lets the attempt after the last one start
RetryOrFallbackOnceMore(p, delay) ==
    IF attempt[p] <= maxRetries
    THEN /\ pc' = [pc EXCEPT ![p] = "backoff"]
         /\ wake' = [wake EXCEPT ![p] = now + delay]
         /\ resp' = [resp EXCEPT ![p] = NoResp]
         /\ UNCHANGED <<batchResults, lastReturn>>
    ELSE /\ ReturnAnswers(p, fallbackResponse(batch[p]), "fallback")
         /\ UNCHANGED wake

\* attempt < maxRetries: sleep and retry; else the fallback response
RetryOrFallback(p, delay) ==
    IF attempt[p] < maxRetries
    THEN /\ pc' = [pc EXCEPT ![p] = "backoff"]
         /\ wake' = [wake EXCEPT ![p] = now + delay]
         /\ resp' = [resp EXCEPT ![p] = NoResp]
         /\ UNCHANGED <<batchResults, lastReturn>>
    ELSE /\ ReturnAnswers(p, fallbackResponse(batch[p]), "fallback")
         /\ UNCHANGED wake

HandleSuccess(p) ==
    /\ pc[p] = "respond"
    /\ isSuccess(resp[p], isGemini[p])
    \* registerBatchSuccess
    /\ IF degradeActive
       THEN IF recovers(degradeActive, successesSinceDegrade, degradeUntil, now)
            THEN /\ degradeActive' = FALSE
                 /\ successesSinceDegrade' = 0
                 /\ consecutive429' = 0
            ELSE /\ successesSinceDegrade' = successesSinceDegrade + 1
                 /\ UNCHANGED <<degradeActive, consecutive429>>
       ELSE /\ consecutive429' = 0
            /\ UNCHANGED <<degradeActive, successesSinceDegrade>>
    /\ tokenWindow' = registerTokens(tokenWindow, now,
                                     estimatePayloadTokens(p, batch[p]))
    /\ IF postDelay[p]
       THEN /\ pc' = [pc EXCEPT ![p] = "postdelay"]
            /\ wake' = [wake EXCEPT ![p] = now + postWaitMs]
            /\ UNCHANGED <<batchResults, lastReturn, resp>>
       ELSE /\ ReturnAnswers(p, normalizedAnswers(resp[p], batch[p], questions[p]),
                             "answers")
            /\ UNCHANGED wake
    /\ UNCHANGED <<now, nextAllowedRequestTime, degradeUntil, mutexVars, queue,
                   batch, attempt, postDelay, answers>>
    /\ inputUnch /\ sessUnch /\ faultsUnch /\ CountCalls(p) /\ Note503(p)
    /\ NoteDispatch(p)

WakePostDelay(p) ==
    /\ pc[p] = "postdelay"
    /\ now >= wake[p]
    /\ ReturnAnswers(p, normalizedAnswers(resp[p], batch[p], questions[p]), "answers")
    /\ UNCHANGED <<now, govVars, tokenWindow, mutexVars, queue, batch, attempt,
                   wake, postDelay, answers>>
    /\ inputUnch /\ sessUnch /\ faultsUnch /\ CountCalls(p) /\ Note503(p)
    /\ NoteDispatch(p)

\* lines 2507-2518: activate degrade and hand the questions back
HandleEarly429(p) ==
    /\ pc[p] = "respond"
    /\ isEarly429(resp[p], attempt[p], batch[p], isGemini[p])
    /\ degradeActive' = TRUE
    /\ degradeUntil' = now + degradeWindowMs
    /\ successesSinceDegrade' = 0
    /\ consecutive429' = consecutive429 + 1
    /\ nextAllowedRequestTime' =
           now + cooldownDelay(resp[p].hint, consecutive429 + 1, TRUE)
    /\ tokenWindow' = IF resp[p].requested > 0
                      THEN registerTokens(tokenWindow, now, resp[p].requested)
                      ELSE tokenWindow
    /\ queue' = [queue EXCEPT ![p] = fragmentFront(batch[p], @)]
    /\ lastReturn' = [lastReturn EXCEPT ![p] = "sentinel"]
    /\ pc' = [pc EXCEPT ![p] = "pop"]
    /\ resp' = [resp EXCEPT ![p] = NoResp]
    /\ UNCHANGED <<now, mutexVars, batch, batchResults, attempt, wake,
                   postDelay, answers>>
    /\ inputUnch /\ sessUnch /\ faultsUnch /\ CountCalls(p) /\ Note503(p)
    /\ NoteDispatch(p)

\* a 429 that is not an early one: cooldown, and for a single-question batch
\* the wait for the window reset
Handle429(p) ==
    /\ pc[p] = "respond"
    /\ resp[p].kind = "http429"
    /\ ~isEarly429(resp[p], attempt[p], batch[p], isGemini[p])
    /\ LET c == consecutive429 + cooldownCalls(isGemini[p])
           waitMs == msUntilWindowReset(tokenWindow, now)
       IN  /\ consecutive429' = c
           /\ nextAllowedRequestTime' =
                  now + cooldownDelay(resp[p].hint, c, attempt[p] = 1)
           /\ IF Len(batch[p]) = 1 /\ c >= 2
              THEN /\ tokenWindow' = pruneTokenWindow(tokenWindow, now)
                   /\ IF waitMs > 0
                      THEN /\ pc' = [pc EXCEPT ![p] = "winwait"]
                           /\ wake' = [wake EXCEPT ![p] = now + waitMs]
                           /\ resp' = [resp EXCEPT ![p] = NoResp]
                           /\ UNCHANGED <<batchResults, lastReturn>>
                      ELSE RetryOrFallback(p, retryDelay(resp[p], attempt[p]))
              ELSE /\ UNCHANGED tokenWindow
                   /\ RetryOrFallback(p, retryDelay(resp[p], attempt[p]))
    /\ UNCHANGED <<now, degradeActive, degradeUntil, successesSinceDegrade,
                   mutexVars, queue, batch, attempt, postDelay, answers>>
    /\ inputUnch /\ sessUnch /\ faultsUnch /\ CountCalls(p) /\ Note503(p)
    /\ NoteDispatch(p)

\* any other failure: 503 pauses 30 s on attempt 1, then retry or fallback
HandleError(p) ==
    /\ pc[p] = "respond"
    /\ resp[p].kind # "http429"
    /\ ~isSuccess(resp[p], isGemini[p])
    /\ IF resp[p].kind = "http503" /\ attempt[p] = 1
       THEN /\ pc' = [pc EXCEPT ![p] = "pause503"]
            /\ wake' = [wake EXCEPT ![p] = now + PAUSE_503_MS]
            /\ resp' = [resp EXCEPT ![p] = NoResp]
            /\ UNCHANGED <<batchResults, lastReturn>>
       ELSE RetryOrFallback(p, retryDelay(resp[p], attempt[p]))
    /\ UNCHANGED <<now, govVars, tokenWindow, mutexVars, queue, batch, attempt,
                   postDelay, answers>>
    /\ inputUnch /\ sessUnch /\ faultsUnch /\ CountCalls(p) /\ Note503(p)
    /\ NoteDispatch(p)

WakePause503(p) ==
    /\ pc[p] = "pause503"
    /\ now >= wake[p]
    /\ pc' = [pc EXCEPT ![p] = "backoff"]
    /\ wake' = [wake EXCEPT ![p] = now + 5000 * attempt[p]]
    /\ UNCHANGED <<now, govVars, tokenWindow, mutexVars, queue, batch,
                   batchResults, attempt, postDelay, resp, answers, lastReturn>>
    /\ inputUnch /\ sessUnch /\ faultsUnch /\ CountCalls(p) /\ Note503(p)
    /\ NoteDispatch(p)

WakeWinWait(p) ==
    /\ pc[p] = "winwait"
    /\ now >= wake[p]
    /\ RetryOrFallback(p, 2000 * (2 ^ (attempt[p] - 1)))
    /\ UNCHANGED <<now, govVars, tokenWindow, mutexVars, queue, batch, attempt,
                   postDelay, answers>>
    /\ inputUnch /\ sessUnch /\ faultsUnch /\ CountCalls(p) /\ Note503(p)
    /\ NoteDispatch(p)

\* continue: the next attempt starts by acquiring the mutex
WakeBackoff(p) ==
    /\ pc[p] = "backoff"
    /\ now >= wake[p]
    /\ attempt' = [attempt EXCEPT ![p] = @ + 1]
    /\ acquire(p, batch[p])
    /\ UNCHANGED <<now, govVars, queue, batch, batchResults, resp, answers,
                   lastReturn>>
    /\ inputUnch /\ sessUnch /\ faultsUnch /\ CountCalls(p) /\ Note503(p)
    /\ NoteDispatch(p)

\* time passes, up to the next due timer
dueTimes == {wake[p] : p \in {q \in Procs : pc[q] \in Sleeping}}

Tick ==
    /\ \A w \in dueTimes : w > now
    /\ \E t \in dueTimes \cup {now + d : d \in FreeTicks} :
           /\ t > now
           /\ t <= MaxTime
           /\ \A w \in dueTimes : t <= w
           /\ now' = t
    /\ UNCHANGED <<govVars, tokenWindow, mutexVars, pipeVars>>
    /\ sessUnch

Step(p) ==
    \/ StartBatch(p) \/ Finish(p) \/ WakeCooldown(p)
    \/ WakeGate(p) \/ FetchReturn(p) \/ HandleSuccess(p) \/ WakePostDelay(p)
    \/ HandleEarly429(p) \/ Handle429(p) \/ HandleError(p)
    \/ WakePause503(p) \/ WakeWinWait(p) \/ WakeBackoff(p)

\* one request in flight: nobody ever waits for the mutex
NextOne == (\E p \in Procs : Step(p)) \/ Tick

Next == (\E p \in Procs : Step(p) \/ Granted(p)) \/ Tick

\* the requests in flight: one /start-quiz request in SpecOne, two
\* concurrent ones in Spec
PromptTokens   == {500, 14000}

InitPipes(qs1, qs2, gems, prompts) ==
    /\ questions = [p \in Procs |-> IF p = 1 THEN qs1 ELSE qs2]
    /\ isGemini \in [Procs -> BOOLEAN]
    /\ promptTokens \in [Procs -> prompts \cup {0}]
    /\ \A p \in Procs : IF questions[p] = <<>>
                        THEN ~isGemini[p] /\ promptTokens[p] = 0
                        ELSE isGemini[p] \in gems /\ promptTokens[p] \in prompts
    /\ queue = [p \in Procs |-> initialQueue(questions[p], promptTokens[p], isGemini[p])]
    /\ batch = [p \in Procs |-> <<>>]
    /\ batchResults = [p \in Procs |-> <<>>]
    /\ attempt = [p \in Procs |-> 0]
    /\ pc = [p \in Procs |-> IF questions[p] = <<>> THEN "done" ELSE "pop"]
    /\ wake = [p \in Procs |-> 0]
    /\ postDelay = [p \in Procs |-> FALSE]
    /\ resp = [p \in Procs |-> NoResp]
    /\ answers = [p \in Procs |-> <<>>]
    /\ lastReturn = [p \in Procs |-> "none"]
    /\ faults = 0
    /\ issued = [p \in Procs |-> 0]
    /\ unavailableSeen = [p \in Procs |-> FALSE]
    /\ dispatched = [p \in Procs |-> 0]

\* tokens registered by earlier requests
InitWindows == {<<>>, <<[ts |-> 0, tokens |-> 28500]>>}

InitOne == /\ now = 0
           /\ \E w \in InitWindows : InitGovernor(w)
           /\ InitPipes(<<1, 2, 3, 4, 5>>, <<>>, BOOLEAN, PromptTokens)
           /\ InitSessions
           /\ InitCalls({""})

SpecOne == InitOne /\ [][NextOne]_vars

-----------------------------------------------------------------------------
(* SpecMutex: rateLimitMutex alone, under MaxClients dispatches that each  *)
(* run the attempts of one processBatch call; the critical section is the  *)
(* provider call, which returns or throws                                  *)

Clients == 1..MaxClients

\* release() with waiters, handing the lock to the one that came last
handOverLast(mq) ==
    [next |-> mq[Len(mq)], queue |-> SubSeq(mq, 1, Len(mq) - 1)]

\* release() with waiters: const next = this._queue.shift(); next()
handOver(mq) == [next |-> Head(mq), queue |-> Tail(mq)]

\* runExclusive: await this.acquire() at the start of an attempt
MxAcquire(c) ==
    /\ pc[c] = "backoff"
    /\ attempt[c] < maxRetries
    /\ attempt' = [attempt EXCEPT ![c] = @ + 1]
    /\ IF mutexLocked
       THEN /\ mutexQueue' = Append(mutexQueue, c)
            /\ pc' = [pc EXCEPT ![c] = "waitlock"]
            /\ UNCHANGED mutexLocked
       ELSE /\ mutexLocked' = TRUE
            /\ pc' = [pc EXCEPT ![c] = "fetch"]
            /\ UNCHANGED mutexQueue
    /\ UNCHANGED <<now, govVars, winVars, questions, isGemini, promptTokens,
                   queue, batch, batchResults, wake, postDelay, resp, answers,
                   lastReturn, faults, issued, unavailableSeen, dispatched,
                   sessVars, fnVars>>

\* the promise of acquire() was resolved by release(): fn() starts
MxGranted(c) ==
    /\ pc[c] = "granted"
    /\ pc' = [pc EXCEPT ![c] = "fetch"]
    /\ UNCHANGED <<now, govVars, winVars, mutexVars, questions, isGemini,
                   promptTokens, queue, batch, batchResults, attempt, wake,
                   postDelay, resp, answers, lastReturn, faults, issued,
                   unavailableSeen, dispatched, sessVars, fnVars>>

\* try { return await fn(); } finally { this.release(); }: fn returns or
\* throws, and release() runs in both cases
MxRelease(c) ==
    /\ pc[c] = "fetch"
    /\ \E kind \in {"ok", "neterr"} :
           resp' = [resp EXCEPT ![c] = [kind |-> kind, hint |-> 0,
                                        requested |-> 0]]
    /\ IF mutexQueue # <<>>
       THEN /\ mutexQueue' = handOver(mutexQueue).queue
            /\ pc' = [pc EXCEPT ![c] = "backoff",
                                ![handOver(mutexQueue).next] = "granted"]
            /\ UNCHANGED mutexLocked
       ELSE /\ mutexLocked' = FALSE
            /\ pc' = [pc EXCEPT ![c] = "backoff"]
            /\ UNCHANGED mutexQueue
    /\ UNCHANGED <<now, govVars, winVars, questions, isGemini, promptTokens,
                   queue, batch, batchResults, attempt, wake, postDelay,
                   answers, lastReturn, faults, issued, unavailableSeen,
                   dispatched, sessVars, fnVars>>

NextMutex == \E c \in Clients : MxAcquire(c) \/ MxGranted(c) \/ MxRelease(c)

InitMutex ==
    /\ now = 0 /\ InitGovernor(<<>>) /\ InitSessions /\ InitCalls({""})
    /\ questions = [p \in Procs |-> <<>>]
    /\ isGemini = [p \in Procs |-> FALSE]
    /\ promptTokens = [p \in Procs |-> 0]
    /\ queue = [p \in Procs |-> <<>>]
    /\ batch = [p \in Procs |-> <<>>]
    /\ batchResults = [p \in Procs |-> <<>>]
    /\ attempt = [c \in Clients |-> 0]
    /\ pc = [c \in Clients |-> "backoff"]
    /\ wake = [p \in Procs |-> 0]
    /\ postDelay = [p \in Procs |-> FALSE]
    /\ resp = [c \in Clients |-> NoResp]
    /\ answers = [p \in Procs |-> <<>>]
    /\ lastReturn = [p \in Procs |-> "none"]
    /\ faults = 0
    /\ issued = [p \in Procs |-> 0]
    /\ unavailableSeen = [p \in Procs |-> FALSE]
    /\ dispatched = [p \in Procs |-> 0]

\* every critical section finishes and every resolved acquire() continues
SpecMutex ==
    /\ InitMutex /\ [][NextMutex]_vars
    /\ \A c \in Clients : WF_vars(MxGranted(c)) /\ WF_vars(MxRelease(c))

\* a timer due after the end of the modelled clock fires all the same
TickLate ==
    /\ dueTimes # {}
    /\ \A w \in dueTimes : w > now /\ w > MaxTime
    /\ \E t \in dueTimes :
           /\ \A w \in dueTimes : t <= w
           /\ now' = t
    /\ UNCHANGED <<govVars, tokenWindow, mutexVars, pipeVars>>
    /\ sessUnch

NextLive == (\E p \in Procs : Step(p)) \/ Tick \/ TickLate

\* one /start-quiz request of three questions
InitLive == /\ now = 0
            /\ \E w \in InitWindows : InitGovernor(w)
            /\ InitPipes(<<1, 2>>, <<>>, BOOLEAN, PromptTokens)
            /\ InitSessions
            /\ InitCalls({""})

\* one request in flight where every provider call settles and every
\* setTimeout fires: the event loop runs each continuation that is ready
SpecLive ==
    /\ InitLive /\ [][NextLive]_vars
    /\ WF_vars(Tick \/ TickLate)
    /\ \A p \in Procs : WF_vars(Step(p))

-----------------------------------------------------------------------------
(* SpecStart: POST /start-quiz from the call of getAnswersFromAPI to the    *)
(* reply, with the session store empty or already at its limit.            *)

\* the session of an earlier /start-quiz that occupies the store
heldSession == newSession(1, <<1>>, <<AnswerEntry(1, "val", "none")>>, NoUser, 0)

\* the store a request finds on arrival: empty, or full with heldSession
InitStores ==
    /\ sessions \in {<< >>, withSession(<< >>, 1, heldSession)}
    /\ timers = {[id |-> i, at |-> SESSION_TIMEOUT] : i \in DOMAIN sessions}
    /\ nextSessionId = Cardinality(DOMAIN sessions) + 1
    /\ userMetrics = << >>
    /\ lastReply = NoReply

\* /start-quiz after `await getAnswersFromAPI(...)`: createSession and the
\* reply, 429 from the catch of the limit error
StartQuizReply(p) ==
    /\ pc[p] = "done"
    /\ questions[p] # <<>>
    /\ lastReply = NoReply
    /\ IF capacityReached(sessions)
       THEN /\ lastReply' = [op |-> "start", http |-> 429, sessionId |-> 0]
            /\ UNCHANGED <<sessions, timers, nextSessionId, userMetrics>>
       ELSE LET id == nextSessionId
                s  == newSession(id, questions[p], answers[p], NoUser, now)
            IN  /\ sessions' = withSession(sessions, id, s)
                /\ userMetrics' = updateUserMetrics(userMetrics, s.userId,
                                                    "session_created")
                /\ timers' = timers \cup {[id |-> id, at |-> now + SESSION_TIMEOUT]}
                /\ nextSessionId' = nextSessionId + 1
                /\ lastReply' = [op |-> "start", http |-> 200, sessionId |-> id]
    /\ UNCHANGED <<now, otherVars>>

NextStart == NextOne \/ (\E p \in Procs : StartQuizReply(p))

InitStart == /\ now = 0
             /\ \E w \in InitWindows : InitGovernor(w)
             /\ InitPipes(<<1, 2, 3, 4>>, <<>>, BOOLEAN, PromptTokens)
             /\ InitStores
             /\ InitCalls({""})

SpecStart == InitStart /\ [][NextStart]_vars

Init == /\ now = 0
        /\ InitGovernor(<<[ts |-> 0, tokens |-> 28500]>>)
        /\ InitPipes(<<1, 2>>, <<3>>, {FALSE}, {500})
        /\ InitSessions
        /\ InitCalls({""})

Spec == Init /\ [][Next]_vars

\* two requests of two questions each, so that either pipeline can activate
\* degrade mode while the other still has its planned batch in the queue
InitPair == /\ now = 0
            /\ InitGovernor(<<[ts |-> 0, tokens |-> 28500]>>)
            /\ InitPipes(<<1, 2>>, <<3, 4>>, {FALSE}, {500})
            /\ InitSessions
            /\ InitCalls({""})

SpecPair == InitPair /\ [][Next]_vars

-----------------------------------------------------------------------------
(* SpecFn: the pure functions of the response path and of the planner,     *)
(* each applied once to an input drawn from a bounded set.                 *)

SeqsUpTo(S, n) == UNION {[1..k -> S] : k \in 0..n}

\* JSON values an answer can be: a string, or null
AnswerValues == {"val", "null"}
NormKeys     == {1, 2, 5}
FlatNames    == {"", "q", "pregunta_", "note"}

\* the key candidates of the flat-object lookup, in the order tried
possibleKeys == <<"question_", "q", "pregunta_", "">>

\* raw provider responses.  items are the entries of the answers array, the
\* elements of a plain array, or the properties of an object as
\* [name, key, val] for the property name ++ key; json tells that the value
\* arrives as a JSON-encoded string, parses that JSON.parse accepts it.
canonicalItems == SeqsUpTo([name : {""}, key : NormKeys, val : AnswerValues], MaxItems)
arrayItems     == SeqsUpTo([name : {""}, key : {0}, val : AnswerValues], MaxItems)
numericItems   == {it \in canonicalItems :
                      \A i \in 1..Len(it) - 1 : it[i].key < it[i + 1].key}
flatItems      ==
    {it \in SeqsUpTo([name : FlatNames, key : NormKeys, val : AnswerValues], MaxItems) :
        /\ \E i \in 1..Len(it) : it[i].name # ""
        /\ \A i, j \in 1..Len(it) :
               i # j => <<it[i].name, it[i].key>> # <<it[j].name, it[j].key>>}

rawOf(shape, its) ==
    {[shape |-> shape, json |-> FALSE, parses |-> TRUE, items |-> it] : it \in its}
    \cup {[shape |-> shape, json |-> TRUE, parses |-> TRUE, items |-> it] : it \in its}

RawResponses ==
    rawOf("canonical", canonicalItems) \cup rawOf("array", arrayItems)
    \cup rawOf("numeric", numericItems) \cup rawOf("flat", flatItems)
    \cup {[shape |-> "other", json |-> j, parses |-> FALSE, items |-> <<>>] :
              j \in BOOLEAN}

NormBatches == {<<1, 2>>, <<5>>}

NormCalls ==
    {[fn |-> "normalizeAIResponse", raw |-> r, questions |-> qs] :
         r \in RawResponses, qs \in NormBatches}

\* aiResponse[key] for the first of possibleKeys that is a property; "null"
\* when there is none
RECURSIVE flatLookup(_, _, _)
flatLookup(it, n, k) ==
    IF k > Len(possibleKeys) THEN "null"
    ELSE LET hits == {i \in 1..Len(it) :
                         it[i].name = possibleKeys[k] /\ it[i].key = n}
         IN  IF hits # {} THEN it[CHOOSE i \in hits : TRUE].val
             ELSE flatLookup(it, n, k + 1)

flatAnswers(it, qs) ==
    SelectSeq([i \in 1..Len(qs) |->
                  AnswerEntry(qs[i], flatLookup(it, qs[i], 1), "none")],
              LAMBDA e : e.answer # "null")

noValidResponse(qs) ==
    [i \in 1..Len(qs) |-> AnswerEntry(qs[i], "null", "no_valid_response")]

\* normalizeAIResponse(aiResponse, questions): the answers of the object returned
normalizeAIResponse(raw, qs) ==
    LET shape == IF raw.json /\ ~raw.parses THEN "other" ELSE raw.shape
        it    == raw.items
    IN  IF shape = "canonical"
        THEN [i \in 1..Len(it) |-> AnswerEntry(it[i].key, it[i].val, "none")]
        ELSE LET na == CASE shape = "array" ->
                              [i \in 1..Len(it) |-> AnswerEntry(i, it[i].val, "none")]
                         [] shape = "numeric" ->
                              [i \in 1..Len(it) |->
                                  AnswerEntry(it[i].key, it[i].val, "none")]
                         [] shape = "flat" -> flatAnswers(it, qs)
                         [] OTHER -> <<>>
             IN  IF na = <<>> THEN noValidResponse(qs) ELSE na

\* ---- answerShape.js
\* JSON values of an answer: kind tells string (padded: with surrounding
\* whitespace; long: over the length cap; blank: whitespace only), array
\* (elems: what each element is), object, object with an answers array
\* (elems), number, null or undefined
ElemKinds == {"str", "blank", "num", "obj"}
ShapeValue(k, es) == [kind |-> k, elems |-> es]
ShapeValues ==
    {ShapeValue(k, <<>>) : k \in {"string", "padded", "long", "blank", "object",
                                  "number", "null", "undefined"}}
    \cup {ShapeValue(k, es) : k \in {"array", "objectAnswers"},
                             es \in SeqsUpTo(ElemKinds, MaxElems)}

\* question.type as sent, and the lengths of question.placeholders and
\* question.gaps (-1: not an array)
TypeNames ==
    {"multichoice", "checkbox", "CHECKBOX", "radio", "truefalse", "shortanswer",
     "short_text", "short-answer", "ordering", "matching", "moodle_match",
     "gapselect", "moodle_gapselect", "ddwtos", "fill_in_the_blanks_from_list",
     "moodle_dragdrop_text", "dragdrop_text", "ddmarker", "cloze", "essay", ""}
PlaceholderCounts == {-1, 0, 2, 3}
GapCounts == {-1, 3}

ShapeCalls ==
    {[fn |-> "validateAndCoerceAnswer",
      question |-> [type |-> t, placeholders |-> ph, gaps |-> g],
      processedAnswer |-> v] :
         t \in TypeNames, ph \in PlaceholderCounts, g \in GapCounts,
         v \in ShapeValues}

toLowerCase(t) == IF t = "CHECKBOX" THEN "checkbox" ELSE t

\* (question.type || 'unknown').toLowerCase(), then aliasMap[typeRaw] || typeRaw
resolveType(t) ==
    LET typeRaw == toLowerCase(IF t = "" THEN "unknown" ELSE t)
    IN  CASE typeRaw = "checkbox" -> "multichoice"
          [] typeRaw \in {"short_text", "short-answer"} -> "shortanswer"
          [] typeRaw \in {"fill_in_the_blanks_from_list", "moodle_dragdrop_text",
                          "dragdrop_text"} -> "ddwtos"
          [] OTHER -> typeRaw

\* sanitizeString: a string is trimmed and capped (capped: cut, with the
\* ellipsis; empty: nothing left), any other value is returned as it is
sanitizeString(v) ==
    CASE v.kind = "padded" -> ShapeValue("string", <<>>)
      [] v.kind = "long" -> ShapeValue("capped", <<>>)
      [] v.kind = "blank" -> ShapeValue("empty", <<>>)
      [] OTHER -> v

\* coerceArrayStrings: String(v) of every element, trimmed, the empty ones
\* filtered out
coerceArrayStrings(es) ==
    [i \in 1..Len(SelectSeq(es, LAMBDA e : e # "blank")) |-> "str"]

\* an array element taken as a value of its own
elemValue(e) ==
    CASE e = "str" -> ShapeValue("string", <<>>)
      [] e = "blank" -> ShapeValue("blank", <<>>)
      [] e = "num" -> ShapeValue("number", <<>>)
      [] OTHER -> ShapeValue("object", <<>>)

isString(v) == v.kind \in {"string", "padded", "long", "blank", "capped", "empty"}

\* if (expected && coerced.length !== expected)
lengthMismatchShort(expected, len) == expected # 0 /\ len < expected
lengthMismatch(expected, len) == expected # 0 /\ len # expected

isArray(v)  == v.kind = "array"
Verdict(c, v, n) == [coerced |-> c, valid |-> v, note |-> n]

\* the switch of validateAndCoerceAnswer: coerced, valid and note at its end
shapeSwitch(q, a) ==
    LET type == resolveType(q.type) IN
    CASE type = "multichoice" ->
           LET c    == IF isString(a)
                       THEN ShapeValue("array",
                                IF sanitizeString(a).kind = "empty"
                                THEN <<"blank">> ELSE <<"str">>)
                       ELSE a
               note == IF isString(a) THEN "coerced_string_to_array" ELSE "none"
           IN  IF ~isArray(c) THEN Verdict(c, FALSE, note)
               ELSE Verdict(ShapeValue("array", coerceArrayStrings(c.elems)),
                            TRUE, note)
      [] type \in {"radio", "truefalse", "shortanswer"} ->
           LET c    == IF isArray(a)
                       THEN IF a.elems = <<>> THEN ShapeValue("undefined", <<>>)
                            ELSE elemValue(a.elems[1])
                       ELSE a
               note == IF isArray(a) THEN "took_first_array_item" ELSE "none"
           IN  IF ~isString(c) THEN Verdict(c, FALSE, note)
               ELSE Verdict(sanitizeString(c), TRUE, note)
      [] type = "ordering" ->
           IF ~isArray(a) THEN Verdict(a, FALSE, "none")
           ELSE Verdict(ShapeValue("array", coerceArrayStrings(a.elems)), TRUE, "none")
      [] type \in {"matching", "moodle_match", "ddmarker"} ->
           Verdict(a, isArray(a), "none")
      [] type \in {"gapselect", "moodle_gapselect", "ddwtos"} ->
           IF ~isArray(a) THEN Verdict(a, FALSE, "none")
           ELSE LET expected == IF q.placeholders >= 0 THEN q.placeholders
                                ELSE IF q.gaps >= 0 THEN q.gaps ELSE 0
                IN  IF lengthMismatch(expected, Len(a.elems))
                    THEN Verdict(a, FALSE, "length_mismatch")
                    ELSE Verdict(a, TRUE, "none")
      [] type = "cloze" ->
           IF isArray(a)
           THEN LET c == ShapeValue("array", [i \in 1..Len(a.elems) |-> "rec"])
                    expected == IF q.placeholders >= 0 THEN q.placeholders ELSE 0
                IN  IF lengthMismatch(expected, Len(c.elems))
                    THEN Verdict(c, FALSE, "length_mismatch")
                    ELSE Verdict(c, TRUE, "none")
           ELSE IF a.kind = "objectAnswers"
                THEN Verdict(ShapeValue("array", a.elems), TRUE, "none")
                ELSE Verdict(a, FALSE, "none")
      [] OTHER -> Verdict(a, TRUE, "none")

\* an invalid verdict that keeps the value it examined
nullIfInvalidKeeps(v) ==
    IF ~v.valid
    THEN Verdict(v.coerced, FALSE,
                 IF v.note = "none" THEN "invalid_shape" ELSE v.note)
    ELSE v

\* an invalid verdict leaves with coerced = null and a note
nullIfInvalid(v) ==
    IF ~v.valid
    THEN Verdict(ShapeValue("null", <<>>), FALSE,
                 IF v.note = "none" THEN "invalid_shape" ELSE v.note)
    ELSE v

\* validateAndCoerceAnswer(question, processedAnswer)
validateAndCoerceAnswer(q, a) == nullIfInvalid(shapeSwitch(q, a))

Validate ==
    /\ call.fn = "validateAndCoerceAnswer"
    /\ result = NoCall
    /\ result' = [fn |-> call.fn,
                  out |-> validateAndCoerceAnswer(call.question, call.processedAnswer)]
    /\ UNCHANGED <<now, govVars, winVars, mutexVars, pipeVars, sessVars,
                   ADMIN_KEY, call>>

fnUnch == UNCHANGED <<now, govVars, winVars, mutexVars, pipeVars, sessVars,
                      ADMIN_KEY, call>>

Normalize ==
    /\ call.fn = "normalizeAIResponse"
    /\ result = NoCall
    /\ result' = [fn |-> call.fn,
                  answers |-> normalizeAIResponse(call.raw, call.questions)]
    /\ fnUnch

\* question lists handed to getAnswersFromAPI: /start-quiz rejects an empty
\* list (3053), so a list holds at least one question
PlanQuestions == {[i \in 1..n |-> i] : n \in 1..MaxQuestions}

\* token counts of the system prompt: three, two and one question fit under
\* maxTokens for the first three, none for the last
PlanPrompts == {500, 1000, 1200, 14000}

\* the arguments of one batch-planning call; throws tells whether the
\* optimised planner raises, which selects the fixed-size chunking
PlanCalls ==
    [fn : {"createOptimizedBatches"}, questions : PlanQuestions,
     prompt : PlanPrompts, gem : BOOLEAN, throws : BOOLEAN]

\* for (i = 0; i < questions.length; i += maxBatchSize)
\*     batches.push(questions.slice(i, i + maxBatchSize))
fixedChunks(qs) ==
    [i \in 1..((Len(qs) + maxBatchSize - 1) \div maxBatchSize) |->
        SubSeq(qs, (i - 1) * maxBatchSize + 1,
               IF i * maxBatchSize < Len(qs) THEN i * maxBatchSize ELSE Len(qs))]

\* the queue getAnswersFromAPI starts with: a planner that never splits
planQueueSingle(qs, prompt, gem, throws) ==
    <<qs>>

\* the queue getAnswersFromAPI starts with
planQueue(qs, prompt, gem, throws) ==
    IF throws /\ Len(qs) > maxBatchSize THEN fixedChunks(qs)
    ELSE initialQueue(qs, prompt, gem)

Plan ==
    /\ call.fn = "createOptimizedBatches"
    /\ result = NoCall
    /\ result' = [fn |-> call.fn,
                  batches |-> planQueue(call.questions, call.prompt,
                                        call.gem, call.throws)]
    /\ fnUnch

\* parseRetrySeconds(message) of a message without "try again in Ns"
NoHint == [found |-> FALSE, ms |-> 0]

\* the "try again in Ns" of a 429 error text, N in milliseconds; a hint of
\* "0s" is a text that has a hint
HintTexts == {NoHint} \cup {[found |-> TRUE, ms |-> m] : m \in {0, 200, 1000, 3000, 20000}}

\* parseRetrySeconds(message) || 3, in ms: null and 0 are both falsy
suggestedMs(msg) == IF ~msg.found \/ msg.ms = 0 THEN 0 ELSE msg.ms

\* the arguments of one scheduleCooldown call and the state it reads: the
\* error text, the aggressive flag, consecutive429 and the clock
CooldownCalls ==
    [fn : {"scheduleCooldown"}, message : HintTexts, aggressive : BOOLEAN,
     consecutive429 : 0..MaxConsecutive, t : {0, 5000}]

\* scheduleCooldown(message, aggressive): consecutive429++ and
\* nextAllowedRequestTime = now() + clamped
scheduleCooldown(msg, aggressive, c, t) ==
    [consecutive429 |-> c + 1,
     delay |-> cooldownDelay(suggestedMs(msg), c + 1, aggressive),
     nextAllowedRequestTime |->
         t + cooldownDelay(suggestedMs(msg), c + 1, aggressive)]

ScheduleCooldown ==
    /\ call.fn = "scheduleCooldown"
    /\ result = NoCall
    /\ result' = [fn |-> call.fn,
                  out |-> scheduleCooldown(call.message, call.aggressive,
                                           call.consecutive429, call.t)]
    /\ fnUnch

\* token windows a gate call may find: up to two entries in timestamp order,
\* registered at 0 or at 58 s
GateEntries == [ts : {0, 58000}, tokens : {15000, 31000, 50000}]
GateWindows ==
    {<<>>} \cup {<<e>> : e \in GateEntries}
           \cup {<<p[1], p[2]>> :
                     p \in {q \in GateEntries \X GateEntries : q[2].ts >= q[1].ts}}

\* the argument of one preflightTokenGate call and the state it reads: the
\* token window and the clock
GateCalls ==
    [fn : {"preflightTokenGate"}, window : GateWindows,
     t : {58000, 59000, 60000, 61000}, estimatedTokens : {1000, 2000}]

\* preflightTokenGate(estimatedTokens): the sleep it makes, the postDelay it
\* returns and the window it leaves
preflightTokenGate(w, t, est) ==
    [wait |-> gateWait(w, t, est),
     postDelay |-> gatePostDelay(w, t, est),
     window |-> windowAfterRead(w, t)]

PreflightTokenGate ==
    /\ call.fn = "preflightTokenGate"
    /\ result = NoCall
    /\ result' = [fn |-> call.fn,
                  out |-> preflightTokenGate(call.window, call.t,
                                             call.estimatedTokens)]
    /\ fnUnch

\* answer.answer of an ordering question as normalizeAIResponse leaves it:
\* null, a number, an object without an order list, a string without and
\* with separators ("listString"), an array, an object { order: [...] }
OrderingAnswers ==
    {ShapeValue(k, <<>>) : k \in {"null", "number", "object", "string",
                                  "listString"}}
    \cup {ShapeValue(k, es) : k \in {"array", "objectOrder"},
                             es \in SeqsUpTo(ElemKinds, MaxItems)}

\* question.options.length of the ordering question (-1: not an array)
OptionCounts == {-1, 0, 2}

OrderingCalls ==
    [fn : {"processAnswerByType"}, options : OptionCounts,
     answer : OrderingAnswers]

\* processAnswerByType(answer, question), case 'ordering': an array is
\* returned as it is, then answer.order, then the parts of a separated
\* string, then a copy of question.options, then []
processOrdering(options, a) ==
    CASE a.kind = "array" -> a
      [] a.kind = "objectOrder" -> ShapeValue("array", a.elems)
      [] a.kind = "listString" -> ShapeValue("array", <<"str", "str">>)
      [] OTHER -> ShapeValue("array", [i \in 1..Max(options, 0) |-> "str"])

\* lines 2965-2966: the answer entry of an ordering question in the result
\* list of getAnswersFromAPI
orderingFinalAnswer(options, a) ==
    validateAndCoerceAnswer([type |-> "ordering", placeholders |-> -1,
                             gaps |-> -1],
                            processOrdering(options, a))

ProcessOrdering ==
    /\ call.fn = "processAnswerByType"
    /\ result = NoCall
    /\ result' = [fn |-> call.fn,
                  out |-> orderingFinalAnswer(call.options, call.answer)]
    /\ fnUnch

FnCalls == NormCalls \cup ShapeCalls \cup PlanCalls \cup CooldownCalls
               \cup GateCalls \cup OrderingCalls

NextFn == Normalize \/ Validate \/ Plan \/ ScheduleCooldown
              \/ PreflightTokenGate \/ ProcessOrdering

InitFn == /\ now = 0 /\ InitGovernor(<<>>) /\ InitPipesIdle /\ InitSessions
          /\ ADMIN_KEY = ""
          /\ call \in FnCalls
          /\ result = NoCall

SpecFn == InitFn /\ [][NextFn]_vars

-----------------------------------------------------------------------------
(* Properties *)

IsSuffix(a, b) == \E k \in 0..Len(b) : a = SubSeq(b, k + 1, Len(b))

\* pipeline p handles the provider response r it holds
Handles(p) == pc[p] = "respond" /\ pc'[p] # "respond"

\* C1: when getAnswersFromAPI returns, its answers list has exactly one entry
\* per input question, in the order of the input list, and a question with
\* no batch result carries answer null and an error.
C1_OneEntryPerQuestion ==
    \A p \in Procs :
        pc[p] = "done" =>
            /\ Len(answers[p]) = Len(questions[p])
            /\ \A i \in 1..Len(questions[p]) :
                   /\ answers[p][i].question_number = questions[p][i]
                   /\ (\A k \in 1..Len(batchResults[p]) :
                           batchResults[p][k].question_number # questions[p][i])
                      => /\ answers[p][i].answer = "null"
                         /\ answers[p][i].error # "none"

\* a request returned after a re-queue put its results out of input order
C1_Witness ==
    /\ pc[1] = "done"
    /\ Len(answers[1]) = 5
    /\ batchResults[1][1].question_number # questions[1][1]
    /\ \E i \in 1..5 : answers[1][i].answer = "val"

\* C2: the k-th getNextCommand call on a live session holding n answers
\* returns 'command' with the answer at index k-1 and moves currentIndex from
\* k-1 to k while k <= n, and returns 'completed' leaving currentIndex at n
\* afterwards; currentIndex never decreases and stays within 0..n.
C2_NextCommand ==
    /\ [](\A id \in DOMAIN sessions :
              /\ sessions[id].currentIndex >= 0
              /\ sessions[id].currentIndex <= Len(sessions[id].answers))
    /\ [][\A id \in DOMAIN sessions \cap DOMAIN sessions' :
              /\ sessions'[id].currentIndex >= sessions[id].currentIndex
              /\ sessions'[id].polls = sessions[id].polls + 1 =>
                     LET s == sessions[id]
                         k == s.polls + 1
                         n == Len(s.answers)
                     IN  IF k <= n
                         THEN /\ lastReply'.op = "poll" /\ lastReply'.id = id
                              /\ lastReply'.status = "command"
                              /\ lastReply'.command.number = s.answers[k].question_number
                              /\ lastReply'.command.selectedAnswer = s.answers[k].answer
                              /\ s.currentIndex = k - 1
                              /\ sessions'[id].currentIndex = k
                         ELSE /\ lastReply'.op = "poll" /\ lastReply'.id = id
                              /\ lastReply'.status = "completed"
                              /\ s.currentIndex = n
                              /\ sessions'[id].currentIndex = n]_vars

\* a session with two answers polled past its last answer
C2_Witness ==
    \E id \in DOMAIN sessions :
        /\ Len(sessions[id].answers) = 2
        /\ sessions[id].polls = 3
        /\ sessions[id].currentIndex = 2
        /\ lastReply = [op |-> "poll", id |-> id, status |-> "completed"]

\* C3: a /start-quiz that reaches createSession while the number of
\* non-expired sessions is >= MAX_CONCURRENT_USERS adds no session, schedules
\* no timer, updates no metrics, and is answered 429 without a sessionId.
C3_CapacityError ==
    [][(/\ Cardinality({id \in DOMAIN sessions : ~sessions[id].expired})
              >= MAX_CONCURRENT_USERS
        /\ lastReply'.op = "start")
       => /\ sessions' = sessions
          /\ timers' = timers
          /\ userMetrics' = userMetrics
          /\ lastReply'.http = 429
          /\ lastReply'.sessionId = 0]_vars

\* a start request rejected while a session is active
C3_Witness ==
    /\ lastReply = [op |-> "start", http |-> 429, sessionId |-> 0]
    /\ \E id \in DOMAIN sessions : ~sessions[id].expired

\* C4: the number of sessions in the store whose expired flag is false never
\* exceeds MAX_CONCURRENT_USERS.
C4_SessionCap ==
    Cardinality({id \in DOMAIN sessions : ~sessions[id].expired})
        <= MAX_CONCURRENT_USERS

\* the store is full and still holds an expired session next to the active one
C4_Witness ==
    /\ Cardinality({id \in DOMAIN sessions : ~sessions[id].expired})
           = MAX_CONCURRENT_USERS
    /\ \E id \in DOMAIN sessions : sessions[id].expired
    /\ nextSessionId > MaxSessions

\* C5: when the first attempt of a batch of k > 1 questions returns 429, no
\* answers are recorded for the batch and its k questions go to the front of
\* the pending queue as k singleton batches.
C5_Early429Requeue ==
    [][\A p \in Procs :
           (/\ Handles(p)
            /\ resp[p].kind = "http429"
            /\ attempt[p] = 1
            /\ Len(batch[p]) > 1)
           => /\ batchResults'[p] = batchResults[p]
              /\ pc'[p] = "pop"
              /\ Len(queue'[p]) = Len(queue[p]) + Len(batch[p])
              /\ \A i \in 1..Len(batch[p]) :
                     \E j \in 1..Len(batch[p]) : queue'[p][j] = <<batch[p][i]>>
              /\ SubSeq(queue'[p], Len(batch[p]) + 1, Len(queue'[p])) = queue[p]]_vars

\* C6: while degrade mode is active each successful batch increments the
\* success counter, and the 5th one since activation leaves degrade mode
\* inactive, before degradeUntil as well, with the success counter and the
\* consecutive-failure counter back at 0.
C6_DegradeRecovery ==
    /\ [](degradeActive => successesSinceDegrade < SUCCESS_TO_RECOVER)
    /\ [][\A p \in Procs :
              (/\ Handles(p)
               /\ resp[p].kind \in {"ok", "extra"}
               /\ degradeActive)
              => IF successesSinceDegrade + 1 >= SUCCESS_TO_RECOVER
                 THEN /\ ~degradeActive'
                      /\ successesSinceDegrade' = 0
                      /\ consecutive429' = 0
                 ELSE now < degradeUntil =>
                          /\ degradeActive'
                          /\ successesSinceDegrade' = successesSinceDegrade + 1]_vars

\* degrade mode was left by the success count, before degradeUntil
C6_Witness ==
    /\ ~degradeActive
    /\ now < degradeUntil
    /\ successesSinceDegrade = 0
    /\ consecutive429 = 0
    /\ Len(batchResults[1]) >= SUCCESS_TO_RECOVER

\* the pipelines that hold rateLimitMutex
holders == {p \in Procs : pc[p] \in InCS \cup {"granted"}}

\* C7: at most one dispatch is inside the critical section guarded by
\* rateLimitMutex (cooldown wait, token gate and provider call), also after
\* a dispatch left it by an exception.
C7_MutualExclusion ==
    /\ Cardinality(holders) <= 1
    /\ holders # {} => mutexLocked
    /\ \A i \in 1..Len(mutexQueue) : pc[mutexQueue[i]] = "waitlock"

\* a dispatch left the critical section by a network error and the waiting
\* one was let in
C7_Witness ==
    \E p, q \in Procs :
        /\ p # q
        /\ pc[p] = "respond" /\ resp[p].kind = "neterr"
        /\ pc[q] \in InCS \cup {"granted"}
        /\ mutexLocked

\* C8 as stated: a read at time t returns the sum of all registered entries
\* with timestamp >= t - 60 s whenever that sum is at most 3x the limit, and
\* leaves no entry older than 60 s in the window.
C8_TrailingSumAll ==
    lastUsed # NoRead =>
        LET inWindow == SelectTs(everRegistered, now - WINDOW_MS)
        IN  /\ SumTokens(inWindow) <= 3 * limitPerMinute
                => lastUsed.used = SumTokens(inWindow)
            /\ \A i \in 1..Len(tokenWindow) : tokenWindow[i].ts >= now - WINDOW_MS

\* C8: a read at time t returns the sum of the entries registered since the
\* last sanity reset (a read that found more than 3x the limit and emptied
\* the window) with timestamp >= t - 60 s, and leaves no entry older than
\* 60 s in the window.
C8_TrailingSum ==
    lastUsed # NoRead =>
        /\ lastUsed.used = SumTokens(SelectTs(registered, now - WINDOW_MS))
        /\ \A i \in 1..Len(tokenWindow) : tokenWindow[i].ts >= now - WINDOW_MS

\* a read that excludes an entry registered more than 60 s before and
\* includes a later one
C8_Witness ==
    /\ lastUsed # NoRead
    /\ lastUsed.used > 0
    /\ \E i \in 1..Len(registered) : registered[i].ts < now - WINDOW_MS
    /\ \E i \in 1..Len(registered) : registered[i].ts >= now - WINDOW_MS

\* C9: a successful batch appends exactly one entry, carrying its estimated
\* token cost, to the token window; an attempt answered 429 appends nothing.
C9_TokensOnlyOnSuccess ==
    [][\A p \in Procs :
           /\ (Handles(p) /\ resp[p].kind \in {"ok", "extra"})
              => /\ tokenWindow' # <<>>
                 /\ tokenWindow'[Len(tokenWindow')] =
                        [ts |-> now, tokens |-> estimatePayloadTokens(p, batch[p])]
                 /\ IsSuffix(SubSeq(tokenWindow', 1, Len(tokenWindow') - 1),
                             tokenWindow)
           /\ (Handles(p) /\ resp[p].kind = "http429")
              => IsSuffix(tokenWindow', tokenWindow)]_vars

\* the failure classes of processBatch
Failed(p) ==
    \/ resp[p].kind \in {"http429", "http503", "http500", "neterr",
                         "malformed", "partial"}
    \/ resp[p].kind = "unparseable" /\ isGemini[p]

\* C10: processBatch makes at most 3 attempts and, when the 3rd fails too,
\* whatever the failure class, returns one entry per question of the batch,
\* each with answer null and an error.
C10_Fallback ==
    /\ [](\A p \in Procs : attempt[p] <= 3)
    /\ [][\A p \in Procs :
              (/\ attempt[p] = 3
               /\ \/ Handles(p) /\ Failed(p) /\ pc'[p] # "winwait"
                  \/ pc[p] = "winwait" /\ pc'[p] # "winwait")
              => /\ pc'[p] = "pop"
                 /\ lastReturn'[p] = "fallback"
                 /\ Len(batchResults'[p]) = Len(batchResults[p]) + Len(batch[p])
                 /\ SubSeq(batchResults'[p], 1, Len(batchResults[p])) = batchResults[p]
                 /\ \A i \in 1..Len(batch[p]) :
                        LET a == batchResults'[p][Len(batchResults[p]) + i]
                        IN  /\ a.question_number = batch[p][i]
                            /\ a.answer = "null"
                            /\ a.error # "none"]_vars

\* a multi-question batch whose three attempts failed got the fallback
C10_Witness ==
    \E p \in Procs :
        /\ lastReturn[p] = "fallback"
        /\ pc[p] = "pop"
        /\ Len(batch[p]) > 1
        /\ Len(batchResults[p]) >= Len(batch[p])

\* C11: for every raw provider response and every question of the batch,
\* the output of normalizeAIResponse holds an answer entry for that question;
\* a response that yields no answer gives one null entry with an error per
\* question.
C11_AnswerPerQuestion ==
    result.fn = "normalizeAIResponse" =>
        LET qs  == call.questions
            out == result.answers
        IN  /\ \A i \in 1..Len(qs) :
                   \E k \in 1..Len(out) : out[k].question_number = qs[i]
            /\ call.raw.items = <<>> =>
                   /\ Len(out) = Len(qs)
                   /\ \A i \in 1..Len(qs) :
                          /\ out[i].question_number = qs[i]
                          /\ out[i].answer = "null"
                          /\ out[i].error # "none"

\* question types by the family their aliases resolve to
MultiNames  == {"multichoice", "checkbox", "CHECKBOX", "ordering"}
ScalarNames == {"radio", "truefalse", "shortanswer", "short_text", "short-answer"}
GapNames    == {"gapselect", "moodle_gapselect", "ddwtos",
                "fill_in_the_blanks_from_list", "moodle_dragdrop_text",
                "dragdrop_text"}
ArrayNames  == GapNames \cup {"matching", "moodle_match", "ddmarker", "cloze"}

\* C12: validateAndCoerceAnswer returns either valid = true with an answer of
\* the container shape expected for the question's type, or valid = false
\* with coerced = null and a shape note; never a non-null answer with
\* valid = false, nor an ill-shaped answer with valid = true for a known type.
C12_ShapeOrNull ==
    result.fn = "validateAndCoerceAnswer" =>
        LET o == result.out
            t == call.question.type
        IN  /\ o.valid =>
                /\ t \in MultiNames =>
                       /\ o.coerced.kind = "array"
                       /\ \A i \in 1..Len(o.coerced.elems) : o.coerced.elems[i] = "str"
                /\ t \in ScalarNames => o.coerced.kind \in {"string", "capped", "empty"}
                /\ t \in ArrayNames => o.coerced.kind = "array"
            /\ ~o.valid =>
                /\ o.coerced = [kind |-> "null", elems |-> <<>>]
                /\ o.note \in {"invalid_shape", "length_mismatch",
                               "took_first_array_item", "coerced_string_to_array"}

\* a bare string coerced for a multichoice question, and an array whose
\* first item is no string rejected for a scalar one
C12_Witness ==
    /\ result.fn = "validateAndCoerceAnswer"
    /\ \/ /\ call.question.type = "checkbox"
          /\ call.processedAnswer.kind = "padded"
          /\ result.out = [coerced |-> [kind |-> "array", elems |-> <<"str">>],
                           valid |-> TRUE, note |-> "coerced_string_to_array"]
       \/ /\ call.question.type = "radio"
          /\ call.processedAnswer = [kind |-> "array", elems |-> <<"num", "str">>]
          /\ ~result.out.valid
          /\ result.out.note = "took_first_array_item"

\* C13: for a gapselect, ddwtos or cloze question with n > 0 expected
\* placeholders, an array answer of another length is invalid, with answer
\* null and shape note 'length_mismatch'; one of length n is accepted.
C13_LengthMismatch ==
    (/\ result.fn = "validateAndCoerceAnswer"
     /\ call.question.type \in GapNames \cup {"cloze"}
     /\ call.processedAnswer.kind = "array") =>
        LET q == call.question
            n == IF q.placeholders >= 0 THEN q.placeholders
                 ELSE IF q.type \in GapNames THEN q.gaps ELSE -1
            len == Len(call.processedAnswer.elems)
            o == result.out
        IN  n > 0 =>
                IF len # n
                THEN /\ ~o.valid
                     /\ o.coerced.kind = "null"
                     /\ o.note = "length_mismatch"
                ELSE /\ o.valid
                     /\ o.coerced.kind = "array"
                     /\ Len(o.coerced.elems) = n

\* a gapselect question with 3 placeholders answered by an array of length 2
C13_Witness ==
    /\ result.fn = "validateAndCoerceAnswer"
    /\ call.question.type = "gapselect"
    /\ call.question.placeholders = 3
    /\ Len(call.processedAnswer.elems) = 2
    /\ call.processedAnswer.kind = "array"
    /\ result.out.note = "length_mismatch"
    /\ result.out.coerced.kind = "null"

RECURSIVE Flatten(_)
Flatten(bs) == IF bs = <<>> THEN <<>> ELSE Head(bs) \o Flatten(Tail(bs))

\* C14: the batch plan is an order-preserving partition of the question list:
\* the batches concatenated in order are the input, no batch is empty, no batch
\* has more than maxBatchSize questions, and seven questions whose token
\* estimates leave room for three per batch are planned as batches of 3, 3, 1;
\* the fixed-size chunking of the fallback path obeys the same
C14_BatchPlan ==
    result.fn = "createOptimizedBatches" =>
        /\ Flatten(result.batches) = call.questions
        /\ \A i \in 1..Len(result.batches) :
               /\ Len(result.batches[i]) >= 1
               /\ Len(result.batches[i]) <= maxBatchSize
        /\ (/\ Len(call.questions) = 7
            /\ \/ call.throws
               \/ maxBatchSize * planTokens(call.prompt, call.gem) <= maxTokens)
           => [i \in 1..Len(result.batches) |-> Len(result.batches[i])]
                  = <<3, 3, 1>>

C14_Witness ==
    /\ result.fn = "createOptimizedBatches"
    /\ Len(call.questions) = 7
    /\ ~call.throws
    /\ result.batches = <<<<1, 2, 3>>, <<4, 5, 6>>, <<7>>>>

\* a session that getSession no longer returns: absent, flagged expired, or
\* with the clock past its expiresAt
Over(id) ==
    id \in DOMAIN sessions =>
        sessions[id].expired \/ now > sessions[id].expiresAt

\* C15: session expiry is terminal and fixed at creation.  No step changes a
\* session's expiresAt or clears its expired flag, and an id that left the store
\* never comes back; so a session that is flagged expired or past its expiresAt
\* stays so.  On such a session a getSession returns null and leaves the flag
\* set, and a getNextCommand returns an error and does not advance
\* currentIndex.  A getSession that returns the session sets lastAccessAt to
\* the clock.
C15_ExpiryTerminal ==
    [][\A id \in SessionIds :
          /\ (id \in DOMAIN sessions /\ id \in DOMAIN sessions') =>
                 /\ sessions'[id].expiresAt = sessions[id].expiresAt
                 /\ sessions[id].expired => sessions'[id].expired
          /\ (id < nextSessionId /\ id \notin DOMAIN sessions) =>
                 id \notin DOMAIN sessions'
          /\ now' >= now
          /\ (id < nextSessionId /\ Over(id)) =>
                 /\ (lastReply'.op = "getSession" /\ lastReply'.id = id) =>
                        /\ ~lastReply'.found
                        /\ id \in DOMAIN sessions => sessions'[id].expired
                 /\ (lastReply'.op = "poll" /\ lastReply'.id = id) =>
                        /\ lastReply'.status = "error"
                        /\ id \in DOMAIN sessions =>
                               sessions'[id].currentIndex
                                   = sessions[id].currentIndex
          /\ (lastReply'.op = "getSession" /\ lastReply'.id = id
                 /\ lastReply'.found) =>
                 sessions'[id].lastAccessAt = now
      ]_vars

\* a poll of a session whose timer has not fired but whose expiresAt has
\* passed: refused with answers still undelivered, and flagged by that read
C15_Witness ==
    /\ lastReply.op = "poll"
    /\ lastReply.status = "error"
    /\ lastReply.id \in DOMAIN sessions
    /\ sessions[lastReply.id].expired
    /\ now > sessions[lastReply.id].expiresAt
    /\ sessions[lastReply.id].currentIndex >= 1
    /\ sessions[lastReply.id].currentIndex < Len(sessions[lastReply.id].answers)
    /\ \E tm \in timers : tm.id = lastReply.id

\* C16: in every configuration, an admin request whose x-admin-key header
\* differs from the configured secret is answered 403, receives no session
\* data and leaves the session store unchanged
C16_AdminGate ==
    [][(lastReply'.op \in {"adminList", "adminDelete"}
           /\ lastReply'.key # ADMIN_KEY) =>
          /\ lastReply'.http = 403
          /\ lastReply'.data = {}
          /\ sessions' = sessions
      ]_vars

\* the entries of the window registered in the 60 s up to the clock
trailingEntries == SelectSeq(tokenWindow, LAMBDA e : e.ts >= now - WINDOW_MS)

\* C17: in every reachable state the token counts registered in the trailing
\* 60 seconds sum to at most limitPerMinute
C17_BudgetCeiling == SumTokens(trailingEntries) <= limitPerMinute

\* C18: a session-start request that arrives while the active-session count is
\* at the maximum is answered with the capacity error before any provider
\* batch is dispatched for it: while the store is full and the request has no
\* reply yet, none of its batches is at the provider or has been there
C18_CapacityFirst ==
    (capacityReached(sessions) /\ lastReply.op # "start") =>
        \A p \in Procs : pc[p] # "fetch" /\ batchResults[p] = <<>>

\* a step that turns degrade mode on, renews its deadline or resets its
\* success counter while it stays on
Activates ==
    /\ degradeActive'
    /\ \/ ~degradeActive
       \/ degradeUntil' # degradeUntil
       \/ successesSinceDegrade' < successesSinceDegrade

\* p handles a 429 that came on attempt 2 or 3, or for a single question
Late429(p) ==
    /\ Handles(p)
    /\ resp[p].kind = "http429"
    /\ attempt[p] >= 2 \/ Len(batch[p]) = 1

\* C19 as stated: degrade mode is activated only by the step that handles a
\* 429 on attempt 1 of a batch of more than one question, which sets
\* degradeUntil to now + 60 s and the success counter to 0; a 429 on a later
\* attempt or for a single question leaves the degrade state alone and the
\* same batch goes on to another attempt
C19_DegradeOnlyEarly429 ==
    [][/\ Activates =>
           /\ \E p \in Procs : /\ Handles(p)
                                /\ resp[p].kind = "http429"
                                /\ attempt[p] = 1
                                /\ Len(batch[p]) > 1
           /\ degradeUntil' = now + degradeWindowMs
           /\ successesSinceDegrade' = 0
       /\ \A p \in Procs :
             Late429(p) =>
                 /\ UNCHANGED <<degradeActive, degradeUntil,
                                successesSinceDegrade>>
                 /\ batch'[p] = batch[p]
                 /\ queue'[p] = queue[p]
                 /\ pc'[p] \in {"backoff", "winwait"}
      ]_vars

\* C19, amended: as above, except that the batch goes on to another attempt
\* only while attempts remain; a 429 on the last attempt ends the batch with
\* the null entries of fallbackResponse.  In both cases the batch is not split
\* and the queue is not touched, and a waiting batch is retried unchanged.
C19_DegradeOnlyEarly429Retry ==
    [][/\ Activates =>
           /\ \E p \in Procs : /\ Handles(p)
                                /\ resp[p].kind = "http429"
                                /\ attempt[p] = 1
                                /\ Len(batch[p]) > 1
           /\ degradeUntil' = now + degradeWindowMs
           /\ successesSinceDegrade' = 0
       /\ \A p \in Procs :
             /\ Late429(p) =>
                 /\ UNCHANGED <<degradeActive, degradeUntil,
                                successesSinceDegrade>>
                 /\ batch'[p] = batch[p]
                 /\ queue'[p] = queue[p]
                 /\ \/ pc'[p] = "winwait"
                    \/ attempt[p] < maxRetries /\ pc'[p] = "backoff"
                    \/ /\ attempt[p] = maxRetries
                       /\ lastReturn'[p] = "fallback"
                       /\ batchResults'[p]
                              = batchResults[p] \o fallbackResponse(batch[p])
             /\ pc[p] \in {"backoff", "winwait"} =>
                 /\ batch'[p] = batch[p]
                 /\ queue'[p] = queue[p]
                 /\ pc'[p] = "fetch" => attempt'[p] = attempt[p] + 1
      ]_vars

\* a batch of several questions waiting for its third attempt after a 429 on
\* the second, with degrade mode off
C19_Witness ==
    \E p \in Procs :
        /\ pc[p] = "backoff"
        /\ attempt[p] = 2
        /\ Len(batch[p]) > 1
        /\ ~isGemini[p]
        /\ consecutive429 > 0
        /\ ~degradeActive

\* C20: for every provider family, Gemini included, the step that handles a
\* 429 on attempt 1 of a batch of more than one question activates degrade
\* mode and makes processBatch return the degradedQuestions sentinel: the
\* batch gets no further attempt and contributes no answers
C20_Early429AllFamilies ==
    [][\A p \in Procs :
           (/\ Handles(p)
            /\ resp[p].kind = "http429"
            /\ attempt[p] = 1
            /\ Len(batch[p]) > 1)
           => /\ degradeActive'
              /\ degradeUntil' = now + degradeWindowMs
              /\ successesSinceDegrade' = 0
              /\ lastReturn'[p] = "sentinel"
              /\ pc'[p] \notin {"backoff", "winwait"}
              /\ batchResults'[p] = batchResults[p]]_vars

\* p pops the batch at the head of its queue
Pops(p) == pc[p] = "pop" /\ queue[p] # <<>> /\ pc'[p] # "pop"

\* C21: degrade mode ends when its window elapses: a batch of more than one
\* question popped at a time >= degradeUntil is dispatched whole, whether or
\* not a batch has succeeded since the activation
C21_WindowEnds ==
    [][\A p \in Procs :
           (Pops(p) /\ Len(Head(queue[p])) > 1 /\ now >= degradeUntil)
           => /\ batch'[p] = Head(queue[p])
              /\ queue'[p] = Tail(queue[p])]_vars

\* C22: a batch of more than one question popped while degrade mode is
\* active is not dispatched whole, whoever activated degrade mode and
\* whenever: its questions become singleton batches at the front of the
\* pipeline's queue, ahead of the batches that were waiting, and the first of
\* them is the batch taken next
C22_SplitOnPop ==
    [][\A p \in Procs :
           (Pops(p) /\ Len(Head(queue[p])) > 1 /\ degradeActive)
           => LET b == Head(queue[p])
                  q == <<batch'[p]>> \o queue'[p]
              IN  /\ Len(q) = Len(b) + Len(queue[p]) - 1
                  /\ \A i \in 1..Len(b) : Len(q[i]) = 1
                  /\ \A i \in 1..Len(b) :
                         \E j \in 1..Len(b) : q[j] = <<b[i]>>
                  /\ SubSeq(q, Len(b) + 1, Len(q)) = Tail(queue[p])]_vars

\* pipeline 1 has its planned batch <<1, 2>> split at the pop, in degrade
\* mode activated by the 429 that pipeline 2 received
C22_Witness ==
    /\ degradeActive
    /\ lastReturn[2] = "sentinel"
    /\ lastReturn[1] = "none"
    /\ batchResults[1] = <<>>
    /\ batch[1] = <<2>>
    /\ queue[1] = <<<<1>>>>
    /\ attempt[1] = 1

\* p evaluates the token gate in this step: it goes on to the provider call
\* or into the wait of the gate
GateEval(p) ==
    pc[p] \notin {"fetch", "gatewait"} /\ pc'[p] \in {"fetch", "gatewait"}

\* q's provider call has completed successfully and its tokens are not in
\* the window yet
Unregistered(q) == pc[q] = "respond" /\ isSuccess(resp[q], isGemini[q])

\* C23: no gate decision is taken against a stale token count: when a
\* dispatch evaluates the token gate, no other dispatch has a successfully
\* completed provider call whose tokens are still to be registered
C23_NoStaleGate ==
    [][\A p \in Procs :
           GateEval(p) => \A q \in Procs \ {p} : ~Unregistered(q)]_vars

\* p takes this step as the holder of rateLimitMutex: it is inside the
\* critical section before the step or enters it by the step
ActsInCS(p) ==
    /\ pc'[p] # pc[p]
    /\ pc[p] \in InCS \cup {"granted"} \/ pc'[p] \in InCS

\* C24: every write of the shared token window and of nextAllowedRequestTime
\* is made by a dispatch that holds rateLimitMutex
C24_WritesUnderMutex ==
    [][(tokenWindow' # tokenWindow
           \/ nextAllowedRequestTime' # nextAllowedRequestTime)
          => \E p \in Procs : ActsInCS(p)]_vars

\* p issues its provider HTTP call in this step
Issues(p) == pc[p] # "fetch" /\ pc'[p] = "fetch"

\* C25: no provider HTTP call is issued before the global cooldown has
\* passed: at the moment a call is issued the clock has reached the value
\* nextAllowedRequestTime has at that moment
C25_CooldownRespected ==
    [][\A p \in Procs : Issues(p) => now >= nextAllowedRequestTime]_vars

\* the delay the claim describes: the hint of the text (3 s when the text has
\* none) times (count + 1), times the growth factor 3/2 in aggressive mode,
\* clamped to [minCooldownMs, maxCooldownMs]
ClaimedDelay(msg, aggressive, count) ==
    LET baseMs == IF msg.found THEN msg.ms ELSE DEFAULT_RETRY_MS
        raw    == IF aggressive THEN (baseMs * (count + 1) * 3) \div 2
                                ELSE baseMs * (count + 1)
    IN  Min(maxCooldownMs, Max(minCooldownMs, raw))

\* the result of the scheduleCooldown call is the one the claim describes
CooldownAsClaimed ==
    LET d == result.out.delay
        c == result.out.consecutive429
    IN  /\ result.out.nextAllowedRequestTime = call.t + d
        /\ d >= minCooldownMs /\ d <= maxCooldownMs
        /\ d = ClaimedDelay(call.message, call.aggressive, c)
        /\ ClaimedDelay(call.message, TRUE, c)
               >= ClaimedDelay(call.message, FALSE, c)
        /\ ClaimedDelay(call.message, call.aggressive, c + 1) >= d

\* C26 as stated: a scheduled cooldown sets nextAllowedRequestTime to now + d
\* with d the parsed hint (3 s when the text has none) times a factor that
\* grows with the failure count and is larger in aggressive mode, clamped;
\* 1.5 s <= d <= 15 s for every hint and every count
C26_CooldownDelay ==
    result.fn = "scheduleCooldown" => CooldownAsClaimed

\* C26, amended: the same for every error text whose hint is absent or
\* positive; a hint of zero seconds is treated as absent, and then too
\* 1.5 s <= d <= 15 s
C26_CooldownDelayPositive ==
    result.fn = "scheduleCooldown" =>
        /\ result.out.delay >= minCooldownMs
        /\ result.out.delay <= maxCooldownMs
        /\ (call.message.found => call.message.ms > 0) => CooldownAsClaimed
        /\ (call.message.found /\ call.message.ms = 0) =>
               result.out.delay
                   = ClaimedDelay(NoHint, call.aggressive,
                                  result.out.consecutive429)

\* a hint of 1 s on the first 429, aggressive: 1 s x 2 x 1.5 = 3 s, inside
\* the clamp
C26_Witness ==
    /\ result.fn = "scheduleCooldown"
    /\ call.message = [found |-> TRUE, ms |-> 1000]
    /\ call.aggressive
    /\ call.consecutive429 = 0
    /\ result.out.delay = 3000
    /\ result.out.nextAllowedRequestTime = call.t + 3000

\* the decision preflightTokenGate takes for pipeline p in this step, by the
\* usage it reads and the estimate of the batch being dispatched
GateTable(p) ==
    LET used == tokensUsedLastMinute(tokenWindow, now)
        est  == estimatePayloadTokens(p, batch'[p])
        near == limitPerMinute - nearThreshold
    IN  /\ used < near => pc'[p] = "fetch" /\ ~postDelay'[p]
        /\ used >= near /\ used + est <= limitPerMinute
               => pc'[p] = "fetch" /\ postDelay'[p]
        /\ used >= near /\ used + est > limitPerMinute
               => /\ pc'[p] = "gatewait" /\ wake'[p] > now
                  /\ ~postDelay'[p]

\* the caller leaves the handling of a settled provider call by sleeping
\* postWaitMs
PostSleeps(p) == pc'[p] = "postdelay" /\ wake'[p] = now + postWaitMs

\* C27: the gate follows its decision table (below the near band: at once,
\* no post delay; in the band and fitting: at once, post delay; in the band
\* and not fitting: blocks, no post delay), and after a gate that returned
\* postDelay = true the caller sleeps 2 s once the request has completed,
\* however it completed
C27_GateTable ==
    [][\A p \in Procs :
          /\ GateEval(p) => GateTable(p)
          /\ pc[p] = "respond" /\ pc'[p] # "respond" /\ postDelay[p]
                => PostSleeps(p)]_vars

\* C27 as the code has it: the same decision table, and the caller sleeps
\* 2 s exactly when the gate returned postDelay = true and the request has
\* completed successfully
C27_GateTableOnSuccess ==
    [][\A p \in Procs :
          /\ GateEval(p) => GateTable(p)
          /\ pc[p] = "respond" /\ pc'[p] # "respond"
                => (PostSleeps(p) <=>
                        postDelay[p] /\ isSuccess(resp[p], isGemini[p]))]_vars

\* a gate in the near band let the call through and the caller is in its
\* post-call sleep
C27_Witness ==
    \E p \in Procs :
        /\ pc[p] = "postdelay" /\ postDelay[p]
        /\ wake[p] > now
        /\ tokensUsedLastMinute(tokenWindow, now) >= limitPerMinute - nearThreshold

\* the gate call made: it found usage in the near band and an estimate that
\* does not fit, so it blocked
GateBlocked ==
    /\ result.fn = "preflightTokenGate"
    /\ LET used == tokensUsedLastMinute(call.window, call.t)
       IN  /\ used >= limitPerMinute - nearThreshold
           /\ used + call.estimatedTokens > limitPerMinute

\* time until the oldest entry of the trailing 60 s leaves the window
ResetWait ==
    msUntilWindowReset(windowAfterRead(call.window, call.t), call.t)

\* C28: a gate that blocks waits until the window resets when usage is at or
\* over the limit and the reset wait is shorter than the pre-wait of 2.2 s,
\* and exactly 2.2 s in every other blocking case
C28_BlockingWait ==
    GateBlocked =>
        result.out.wait =
            IF /\ tokensUsedLastMinute(call.window, call.t) >= limitPerMinute
               /\ ResetWait < preWaitMs
            THEN ResetWait ELSE preWaitMs

\* C28 as the code has it: a gate that blocks waits until the window resets
\* when usage is at or over the limit and the reset wait is longer than the
\* pre-wait of 2.2 s, and exactly 2.2 s in every other blocking case
C28_BlockingWaitLonger ==
    GateBlocked =>
        result.out.wait =
            IF /\ tokensUsedLastMinute(call.window, call.t) >= limitPerMinute
               /\ ResetWait > preWaitMs
            THEN ResetWait ELSE preWaitMs

\* a gate blocked at the limit and waited for the window reset, longer than
\* the pre-wait
C28_Witness ==
    /\ GateBlocked
    /\ tokensUsedLastMinute(call.window, call.t) >= limitPerMinute
    /\ result.out.wait = ResetWait
    /\ result.out.wait > preWaitMs

\* C29: tokensUsedLastMinute never returns more than 3 x limitPerMinute: a
\* read that finds the entries of the trailing 60 s summing to more than
\* 3 x the limit empties the whole window and returns 0, so that a gate
\* decision taken next reads an empty window
C29_SanityReset ==
    [][WinRead =>
          LET total == SumTokens(SelectTs(tokenWindow, now - WINDOW_MS))
          IN  /\ lastUsed'.used <= 3 * limitPerMinute
              /\ total > 3 * limitPerMinute
                    => /\ lastUsed'.used = 0
                       /\ tokenWindow' = <<>>
                       /\ tokensUsedLastMinute(tokenWindow', now') = 0
              /\ total <= 3 * limitPerMinute => lastUsed'.used = total]_vars

\* a read found more than 3 x the limit registered in the trailing 60 s,
\* returned 0 and left the window empty
C29_Witness ==
    /\ lastUsed # NoRead /\ lastUsed.used = 0
    /\ tokenWindow = <<>>
    /\ SumTokens(SelectTs(everRegistered, now - WINDOW_MS)) > 3 * limitPerMinute

\* pipeline p is inside a processBatch call
InProcessBatch(p) == pc[p] \notin {"pop", "done"}

\* C30: a processBatch call issues at most 3 provider calls and, when every
\* provider call settles and every wait ends, it returns: an answers result
\* (the normalised answers or the null answers of the fallback) or the
\* degradedQuestions sentinel
C30_BoundedRetries ==
    /\ [](\A p \in Procs : issued[p] <= maxRetries)
    /\ \A p \in Procs :
          InProcessBatch(p) ~>
              (pc[p] = "pop" /\ lastReturn[p] \in {"answers", "fallback", "sentinel"})

\* a processBatch call returned after its third provider call
C30_Witness ==
    \E p \in Procs :
        /\ pc[p] = "pop" /\ issued[p] = maxRetries
        /\ lastReturn[p] = "fallback"

\* the catch block of pipeline p handles a 503 / UNAVAILABLE / overloaded
\* failure in this step
Catches503(p) ==
    pc[p] = "respond" /\ resp[p].kind = "http503" /\ pc'[p] # "respond"

\* C31: the 30 s pause is applied exactly once per batch, on the first
\* transient-unavailability failure of the batch whichever attempt it occurs
\* on, and the ordinary retry backoff follows the pause
C31_PauseOnFirst503 ==
    [][\A p \in Procs :
          /\ Catches503(p) =>
                (pc'[p] = "pause503" <=> ~unavailableSeen[p])
          /\ pc'[p] = "pause503" /\ pc[p] # "pause503" =>
                Catches503(p) /\ wake'[p] = now + PAUSE_503_MS
          /\ pc[p] = "pause503" /\ pc'[p] # "pause503" =>
                pc'[p] = "backoff"]_vars

\* the catch block of pipeline p handles a 429 in this step
Catches429(p) ==
    pc[p] = "respond" /\ resp[p].kind = "http429" /\ pc'[p] # "respond"

\* C32: a single-question batch waits for the reset of the token window only
\* from its second consecutive 429 on: the 429 caught on its first attempt,
\* which is the first 429 of the batch, is followed by the cooldown and the
\* retry backoff only
C32_WindowWaitFromSecond429 ==
    [][\A p \in Procs :
          Catches429(p) /\ Len(batch[p]) = 1 /\ attempt[p] = 1
              => pc'[p] = "backoff"]_vars

\* C38: each 429 response increments consecutive429 by exactly one and
\* schedules the global cooldown once, with the count after that increment
C38_OneIncrementPer429 ==
    [][\A p \in Procs :
          Catches429(p) =>
              /\ consecutive429' = consecutive429 + 1
              /\ \E aggressive \in BOOLEAN :
                     nextAllowedRequestTime' =
                         now + cooldownDelay(resp[p].hint, consecutive429 + 1,
                                             aggressive)]_vars

\* C33: every batch handed to the dispatcher has at most 3 questions and the
\* per-question token estimates of the planner sum to at most 3500 over the
\* batch, for every question list
C33_BatchLimits ==
    result.fn = "createOptimizedBatches" =>
        \A i \in 1..Len(result.batches) :
            /\ Len(result.batches[i]) <= maxBatchSize
            /\ Len(result.batches[i]) * planTokens(call.prompt, call.gem)
                   <= maxTokens

\* C34: an ordering question whose normalized answer is null, a number or an
\* object without an order list ends in the result list with answer null and
\* shape_note 'invalid_shape'
C34_OrderingInvalid ==
    /\ result.fn = "processAnswerByType"
    /\ call.answer.kind \in {"null", "number", "object"}
    => /\ result.out.coerced.kind = "null"
       /\ result.out.note = "invalid_shape"

\* C35: every created session is eventually removed from the store; a sweep
\* deletes each session that is flagged expired or past its expiresAt,
\* whether or not it was ever read, and leaves every other session in the
\* store as it was
C35_SweepRemoves ==
    /\ \A id \in SessionIds :
           (id \in DOMAIN sessions) ~> (id \notin DOMAIN sessions)
    /\ [][CleanExpiredSessions =>
             \A id \in DOMAIN sessions :
                 IF sessions[id].expired \/ now > sessions[id].expiresAt
                 THEN id \notin DOMAIN sessions'
                 ELSE id \in DOMAIN sessions' /\ sessions'[id] = sessions[id]]_vars

\* sessions were created, none was polled or deleted by the administrator,
\* and the sweep has emptied the store
C35_Witness ==
    /\ nextSessionId > 1
    /\ DOMAIN sessions = {}
    /\ \A u \in DOMAIN userMetrics :
           /\ userMetrics[u].sessionsDeleted = 0
           /\ userMetrics[u].questionsProcessed = 0

\* C36: the final answer of a question is never an entry that a provider
\* returned in the response to a batch the question was not part of
C36_AnswerFromOwnBatch ==
    \A p \in Procs :
        pc[p] = "done" =>
            \A i \in 1..Len(answers[p]) : answers[p][i].answer # "stray"

\* C37: the dispatch loop terminates whatever the provider answers.  A
\* singleton batch is dispatched as it is and never put back into the queue,
\* only questions of a multi-question batch are queued again, and the loop
\* calls processBatch at most (planned batches + questions) times
C37_DispatchTerminates ==
    /\ \A p \in Procs : (pc[p] # "done") ~> (pc[p] = "done")
    /\ [](\A p \in Procs :
              dispatched[p] <= Len(initialQueue(questions[p], promptTokens[p],
                                                isGemini[p]))
                                   + Len(questions[p]))
    /\ [][\A p \in Procs :
              /\ Pops(p) /\ Len(Head(queue[p])) = 1
                    => batch'[p] = Head(queue[p]) /\ queue'[p] = Tail(queue[p])
              /\ InProcessBatch(p) /\ Len(batch[p]) = 1
                    => queue'[p] = queue[p]
              /\ InProcessBatch(p) /\ queue'[p] # queue[p]
                    => /\ Len(queue'[p]) = Len(queue[p]) + Len(batch[p])
                       /\ \A i \in 1..Len(batch[p]) : Len(queue'[p][i]) = 1]_vars

\* a request finished after its planned batch was split: one call for the
\* batch and one for each of its questions
C37_Witness ==
    \E p \in Procs :
        /\ pc[p] = "done"
        /\ dispatched[p] = Len(initialQueue(questions[p], promptTokens[p],
                                            isGemini[p]))
                               + Len(questions[p])
        /\ Len(questions[p]) > 1

\* C39: the mutex is FIFO and starvation-free.  Requests made while the lock
\* is held join the back of the queue, the lock is never free while somebody
\* waits, a release hands the lock to the dispatch that has waited longest,
\* also when the critical section threw, and every waiting dispatch
\* eventually holds the lock
C39_FifoNoStarvation ==
    /\ [](mutexQueue # <<>> => mutexLocked)
    /\ [][\A c \in Clients :
              /\ pc[c] = "waitlock" /\ pc'[c] # "waitlock"
                    => /\ c = Head(mutexQueue)
                       /\ mutexQueue' = Tail(mutexQueue)
                       /\ pc'[c] = "granted" /\ mutexLocked'
              /\ pc[c] # "waitlock" /\ pc'[c] = "waitlock"
                    => mutexLocked /\ mutexQueue' = Append(mutexQueue, c)
              /\ pc[c] = "fetch" /\ pc'[c] # "fetch"
                    => IF mutexQueue = <<>> THEN ~mutexLocked'
                       ELSE pc'[Head(mutexQueue)] = "granted"]_vars
    /\ \A c \in Clients : (pc[c] = "waitlock") ~> (pc[c] = "fetch")

\* two dispatches wait, and the one that asked first has been let in after a
\* critical section that threw
C39_Witness ==
    \E c, d, e \in Clients :
        /\ pc[c] = "backoff" /\ resp[c].kind = "neterr"
        /\ pc[d] = "granted"
        /\ mutexQueue = <<e>>
        /\ mutexLocked

\* the session has handed out all its answers
Consumed(ss, id) == ss[id].currentIndex >= Len(ss[id].answers)

\* C40: consuming all answers of a session does not free its slot.  A poll
\* answered 'completed' leaves the session in the store and not expired, a
\* session start is rejected exactly when the sessions that are not expired,
\* consumed ones included, fill the cap, and a consumed session stops
\* counting only when its expiry time has come or it is deleted
C40_CompletedHoldsSlot ==
    [][/\ (lastReply'.op = "poll" /\ lastReply'.status = "completed")
            => /\ lastReply'.id \in DOMAIN sessions'
               /\ ~sessions'[lastReply'.id].expired
               /\ Consumed(sessions', lastReply'.id)
       /\ (CreateSession /\ lastReply'.op = "start")
            => (lastReply'.http = 429
                   <=> Cardinality({id \in DOMAIN sessions : ~sessions[id].expired})
                           >= MAX_CONCURRENT_USERS)
       /\ \A id \in DOMAIN sessions :
              (/\ ~sessions[id].expired /\ Consumed(sessions, id)
               /\ (id \notin DOMAIN sessions' \/ sessions'[id].expired))
              => \/ now >= sessions[id].expiresAt
                 \/ lastReply'.op = "delete" /\ lastReply'.id = id]_vars

\* a session start was rejected while the only session counted had been
\* polled to 'completed'
C40_Witness ==
    /\ lastReply.op = "start" /\ lastReply.http = 429
    /\ \A id \in DOMAIN sessions :
           ~sessions[id].expired =>
               /\ Consumed(sessions, id)
               /\ sessions[id].polls > Len(sessions[id].answers)

=============================================================================
